---- MODULE Spec2Model ----
(***************************************************************************)
(* Signal / slot dispatch of libcomm (src/signal.hpp): slot_state,         *)
(* connection, the slot variants' call_slot, the copy_on_write cell and    *)
(* signal_base (connect, disconnect, emit, clean), with the task queue     *)
(* that runs the closures posted by queued slots.                          *)
(***************************************************************************)
EXTENDS Integers, Sequences, FiniteSets, TLC

\* ------------------------------------------------------------------ bounds
MaxSlots == 3          \* slots ever connected in one run
NumEmitters == 2       \* threads that may call operator() concurrently
MaxEmits == 2          \* calls of operator() that pass the m_block test
MaxQueue == 2          \* closures pending on the bound task queue
CowSlots == 2          \* slots connected in SpecCow
CowEmits == 1          \* emissions started in SpecCow
CowEmitters == 1       \* emitting threads in SpecCow
QueueSlots == 2        \* slots connected in SpecQueue
QueueEmits == 1        \* emissions started in SpecQueue
RaceSlots == 2         \* slots connected in SpecRace
ShotSlots == 2         \* slots connected in SpecShot
ShotEmits == 2         \* emissions started in SpecShot
GroupSlots == 2        \* slots connected in SpecGroups
GroupEmits == 1        \* emissions started in SpecGroups
UniqueSlots == 3       \* slots connected in SpecUnique
UniqueEmits == 1       \* emissions started in SpecUnique
TwiceSlots == 2        \* slots connected in SpecTwice
TwiceEmits == 1        \* emissions started in SpecTwice
ConnSlots == 1         \* slots connected in SpecConn
ConnEmits == 1         \* emissions started in SpecConn
LifeSlots == 1         \* slots connected in SpecLife
LifeEmits == 1         \* emissions started in SpecLife
BlockSlots == 2        \* slots connected in SpecBlock
BlockEmits == 2        \* emissions started in SpecBlock
DestroySlots == 2      \* slots connected in SpecDestroy
DestroyEmits == 1      \* emissions started in SpecDestroy
LockSlots == 1         \* slots connected in SpecLock
LockEmits == 2         \* emissions started in SpecLock
TrackedSlots == 2      \* slots connected in SpecTracked
TrackedEmits == 1      \* emissions started in SpecTracked
ThrowSlots == 2        \* slots connected in SpecThrow
ThrowEmits == 2        \* emissions started in SpecThrow
MaxCalls == 1          \* proxy calls made by each thread in SpecProxy
MaxNotifies == 1       \* notify calls made on the Observable
MaxTokens == 2         \* tokens created
MaxFrequency == 2      \* largest cleanup frequency set
WaitSlots == 2         \* slots connected in SpecBlocking
AutoSlots == 1         \* slots connected in SpecAuto
AutoEmits == 2         \* emissions started in SpecAuto
WaitEmits == 1         \* emissions started in SpecBlocking
ScopedSlots == 2       \* slots connected in SpecScoped
ScopedEmits == 1       \* emissions started in SpecScoped
GuardSlots == 1        \* slots connected in SpecGuard
DiscSlots == 2           \* slots connected in SpecDisc
DiscEmits == 1           \* emissions started in SpecDisc
MaxPurges == 2           \* counted notify calls in SpecPurge
MaxCapacity == 2        \* largest maxCapacity of the ThreadPool
MaxPosts == 3           \* tasks posted to the ThreadPool
GuardEmits == 2        \* emissions started in SpecGuard

Emitters == 1..NumEmitters
PayloadIds == 1..(NumEmitters + 1)
Callables == {"f", "g"}
Gids == {-1, 0}
GroupIds == {-1, 0, 1}

\* ------------------------------------------------- connection_type (enum)
auto_connection == 0
direct_connection == 1
queued_connection == 2
blocking_queued_connection == 3
unique_connection == 128
singleshot_connection == 256

HasBit(t, b) == (t \div b) % 2 = 1
ClearBit(t, b) == IF HasBit(t, b) THEN t - b ELSE t

VARIABLES
  policy,     \* "mt": signal (std::mutex, copy_on_write); "st": signal_st (null_mutex)
  slot,       \* every slot object made by an accepted connect, by id
  payload,    \* copy_on_write<list_type>::payload objects: count and value
  m_data,     \* the payload the signal's m_slots cell points to
  m_block,    \* signal_base::m_block
  emit,       \* per emitting thread: position of operator() and its snapshot
  queue,      \* closures posted to the bound TaskQueue, FIFO
  runs,       \* per slot: how often its body has been executed
  gone,       \* slots covered by a disconnect call that has returned
  staleRead,  \* an emission has read a vector entry that was removed
  ret,        \* the last API call and what it returned
  nemits,     \* emissions started
  born,       \* per slot: the emissions that had started when it was connected
  watch,      \* the history variables that this run records
  destroyed,  \* ~signal_base has run
  task,       \* the slot a running closure holds through its locked self, or 0
  uaf,        \* clean() has been called on the destroyed signal
  calls,      \* per calling thread, the MethodCall of its proxy call
  tq,         \* the closures posted to the target task queue
  running,    \* what the thread of the target queue is executing
  qthread,    \* the emitter that is the thread of the slots' queue, or 0
  m_mutex,    \* the emitter whose operator() holds the mutex of the signal, or 0
  _observers, \* Observable: the list of StrongRef and WeakRef entries
  owners,     \* the observers to which the program holds a shared_ptr
  _notificationCounter, _weakRefCleanupFrequency,
  nextId,     \* ObserverToken::nextId
  tokens,     \* the ids of the ObserverToken objects of the program, oldest first
  ntf,        \* the notify call in progress
  oq,         \* the closures notify has posted to the observers' queue
  oret,       \* the last call on the Observable and what it returned
  conns,      \* the Connection and ScopedConnection objects of the program
  guards,     \* the connection_blocker objects of the program
  pool,       \* the ThreadPool with its PooledThreads
  mv,         \* two signal objects, one moved into the other, and their slots
  sched       \* the TaskScheduler, the main thread and a worker thread

vars == <<policy, slot, payload, m_data, m_block, emit, queue, runs, gone,
          staleRead, ret, nemits, born, watch, destroyed, task, uaf,
          calls, tq, running, qthread, m_mutex,
          _observers, owners, _notificationCounter, _weakRefCleanupFrequency, nextId, tokens, ntf, oq, oret,
          conns, guards, pool, mv, sched>>

\* the thread pool, the moved signals and the task scheduler
svcvars == <<pool, mv, sched>>

\* the handles on slots that the program holds
handvars == <<conns, guards>>

\* the state of the Observable and of the tokens
obsvars == <<_observers, owners, _notificationCounter, _weakRefCleanupFrequency, nextId, tokens, ntf, oq, oret>>

\* the state of the proxy calls
proxyvars == <<calls, tq, running>>

\* the state of the signal
sigvars == <<policy, slot, payload, m_data, m_block, emit, queue, runs, gone,
             staleRead, ret, nemits, born, watch, destroyed, task, uaf, qthread,
             m_mutex, conns, guards>>

\* history variable h is recorded only in the runs that watch it
Rec(h, new, old) == IF h \in watch THEN new ELSE old

\* an API call and its result: the callable, type and group of a connect, the
\* slot behind the handle of a connection call, the Connection returned (0:
\* the empty handle) and the value returned
Call(op, c, t, gid, h, conn, val) ==
  [op |-> op, c |-> c, t |-> t, gid |-> gid, h |-> h, conn |-> conn, val |-> val]

\* ----------------------------------------------------------- slot objects
\* slot_state(gid) and slot_base(c, type, queue, gid): the fields after
\* construction.  m_index is 0-based, as in the code.
slot_base(c, type, gid) ==
  [callable |-> c,
   m_index |-> 0,
   m_group |-> gid,
   m_connected |-> TRUE,
   m_blocked |-> FALSE,
   m_singleshot |-> HasBit(type, singleshot_connection),
   m_type |-> ClearBit(ClearBit(type, unique_connection), singleshot_connection),
   m_unique |-> FALSE,
   m_emitted |-> FALSE,
   ptr |-> "none",
   obj |-> 0]

\* slot_tracked(c, ptr, f, type, queue, gid): ptr is the weak pointer to the
\* owner, "live" until the owner is destroyed and "expired" afterwards; the
\* other slot types have none
slot_tracked(sl) == [sl EXCEPT !.ptr = "live"]

\* slot_pmf(ptr, pmf, type, queue, gid): obj is the object pointer, 1 or 2;
\* 0 is nullptr
slot_pmf(sl, o) == [sl EXCEPT !.obj = o]

\* get_object of the slot types: nullptr for a slot without an object
get_object(sl) == sl.obj

\* slot_base::can_emit
can_emit(sl) == ~(sl.m_singleshot /\ sl.m_emitted)

\* slot_base::set_emitted: the value of m_emitted afterwards
set_emitted(sl) == IF sl.m_singleshot /\ ~sl.m_emitted THEN TRUE ELSE sl.m_emitted

\* the test that follows the body in every call_slot branch
singleshot_done(sl) == sl.m_singleshot /\ sl.m_emitted

\* slot_base::type; is_current is m_queue->IsCurrent() on the calling thread
type(sl, is_current) ==
  IF sl.m_type = auto_connection
  THEN (IF is_current THEN direct_connection ELSE queued_connection)
  ELSE sl.m_type

\* slot_base::has_callable, as the set of slots of a table that store c
has_callable(tab, c) == {s \in 1..Len(tab) : tab[s].callable = c}

\* slot_base::has_object, as the set of slots of a table bound to object o
has_object(tab, o) == {s \in 1..Len(tab) : get_object(tab[s]) = o}

\* --------------------------------------------------------- list_type value
RECURSIVE Flatten(_)
Flatten(list) ==
  IF list = <<>> THEN <<>> ELSE Head(list).slts \o Flatten(Tail(list))

Range(q) == {q[i] : i \in 1..Len(q)}
Stored(list) == Range(Flatten(list))

\* The signal state the operations read and write, as one value.
Sig == [slot |-> slot, payload |-> payload, m_data |-> m_data, dead |-> destroyed,
        uaf |-> uaf]
m_slots(S) == S.payload[S.m_data].value

\* A slot object exists while some list value holds a shared_ptr to it.
Alive(S, s) ==
  \/ \E p \in PayloadIds : S.payload[p].count > 0 /\ s \in Stored(S.payload[p].value)
  \/ task = s

\* ------------------------------------------------------------ copy_on_write
FreePayload(pl) == CHOOSE p \in PayloadIds :
  pl[p].count = 0 /\ \A q \in PayloadIds : pl[q].count = 0 => p <= q

\* copy_on_write::unique
unique(pl) == pl.count = 1

\* a copy-on-write cell that always writes in place
cow_write_inplace(S) == S

\* cow_write: copy_on_write::write for the thread-safe policy, the container
\* itself for null_mutex
cow_write(S) ==
  IF policy = "st" \/ unique(S.payload[S.m_data]) THEN S
  ELSE LET n == FreePayload(S.payload) IN
       [S EXCEPT !.payload = [@ EXCEPT ![S.m_data].count = @ - 1,
                                       ![n] = [count |-> 1,
                                               value |-> S.payload[S.m_data].value]],
                 !.m_data = n]

\* ~copy_on_write of a snapshot
Release(pl, p) ==
  IF policy = "st" THEN pl
  ELSE IF pl[p].count = 1 THEN [pl EXCEPT ![p] = [count |-> 0, value |-> <<>>]]
  ELSE [pl EXCEPT ![p].count = @ - 1]

\* ------------------------------------------------------------- signal_base
FindGroup(list, gid) ==
  IF \E i \in 1..Len(list) : list[i].gid = gid
  THEN CHOOSE i \in 1..Len(list) :
         list[i].gid = gid /\ \A j \in 1..(i - 1) : list[j].gid # gid
  ELSE 0

\* a clean that trusts the index of the slot without comparing the pointer
clean_unchecked(S, s) ==
  LET W == cow_write(S)
      list == m_slots(W)
      idx == W.slot[s].m_index
      gp == FindGroup(list, W.slot[s].m_group)
  IN IF S.dead THEN [S EXCEPT !.uaf = TRUE]
     ELSE IF gp = 0 THEN W
     ELSE LET slts == list[gp].slts IN
       IF idx < Len(slts)
       THEN LET back == slts[Len(slts)]
                swapped == [slts EXCEPT ![idx + 1] = back, ![Len(slts)] = slts[idx + 1]]
            IN [W EXCEPT !.slot[back].m_index = idx,
                         !.payload[W.m_data].value[gp].slts =
                             SubSeq(swapped, 1, Len(slts) - 1)]
       ELSE W

\* signal_base::clean, reached through the slot's reference m_cleaner; the
\* reference dangles once the signal has been destroyed
clean(S, s) ==
  LET W == cow_write(S)
      list == m_slots(W)
      idx == W.slot[s].m_index
      gp == FindGroup(list, W.slot[s].m_group)
  IN IF S.dead THEN [S EXCEPT !.uaf = TRUE]
     ELSE IF gp = 0 THEN W
     ELSE LET slts == list[gp].slts IN
       IF idx < Len(slts) /\ slts[idx + 1] = s
       THEN LET back == slts[Len(slts)]
                swapped == [slts EXCEPT ![idx + 1] = back, ![Len(slts)] = s]
            IN [W EXCEPT !.slot[back].m_index = idx,
                         !.payload[W.m_data].value[gp].slts =
                             SubSeq(swapped, 1, Len(slts) - 1)]
       ELSE W

\* a disconnect that leaves m_connected set
slot_disconnect_again(S, s) == [st |-> clean(S, s), ret |-> TRUE]

\* slot_state::disconnect with slot_base::do_disconnect
slot_disconnect(S, s) ==
  IF S.slot[s].m_connected
  THEN [st |-> clean([S EXCEPT !.slot[s].m_connected = FALSE], s), ret |-> TRUE]
  ELSE [st |-> S, ret |-> FALSE]

\* connection::disconnect: h is the slot the handle refers to, 0 for an
\* empty handle
conn_disconnect(S, h) ==
  IF h # 0 /\ Alive(S, h) THEN slot_disconnect(S, h) ELSE [st |-> S, ret |-> FALSE]

\* connection::connected, with slot_tracked::connected for a tracked slot
conn_connected(S, h) ==
  h # 0 /\ Alive(S, h) /\ S.slot[h].ptr # "expired" /\ S.slot[h].m_connected

\* connection::blocked
conn_blocked(S, h) == h # 0 /\ Alive(S, h) /\ S.slot[h].m_blocked

\* a block that does nothing
conn_block_none(S, h, b) == S

\* an unblock that also sets m_connected
conn_block_reconnects(S, h, b) ==
  IF h # 0 /\ Alive(S, h)
  THEN [S EXCEPT !.slot[h].m_blocked = b, !.slot[h].m_connected = @ \/ ~b]
  ELSE S

\* connection::block (b = TRUE) and connection::unblock (b = FALSE)
conn_block(S, h, b) ==
  IF h # 0 /\ Alive(S, h) THEN [S EXCEPT !.slot[h].m_blocked = b] ELSE S

\* the first position of the group list whose gid is not below gid
RECURSIVE LowerPos(_, _, _)
LowerPos(groups, gid, it) ==
  IF it <= Len(groups) /\ groups[it].gid < gid THEN LowerPos(groups, gid, it + 1) ELSE it

InsertAt(q, i, x) == SubSeq(q, 1, i - 1) \o <<x>> \o SubSeq(q, i, Len(q))

\* a group search that never skips a group
add_pos_front(groups, gid) == 1

\* the iterator add_slot stops at
add_pos(groups, gid) == LowerPos(groups, gid, 1)

\* signal_base::add_slot
add_slot(S, s) ==
  LET gid == S.slot[s].m_group
      W == cow_write(S)
      groups == m_slots(W)
      it == add_pos(groups, gid)
      g2 == IF it > Len(groups) \/ groups[it].gid # gid
            THEN InsertAt(groups, it, [slts |-> <<>>, gid |-> gid])
            ELSE groups
  IN [W EXCEPT !.slot[s].m_index = Len(g2[it].slts),
               !.payload[W.m_data].value = [g2 EXCEPT ![it].slts = Append(@, s)]]

\* a search that finds nothing
get_slot_none(S, M) == [st |-> cow_write(S), o |-> 0]

\* signal_base::get_slot: the first slot, in storage order, of the set M of
\* slots that satisfy the condition; 0 for nullptr
get_slot(S, M) ==
  LET W == cow_write(S)
      flat == Flatten(m_slots(W))
  IN [st |-> W,
      o |-> IF \E i \in 1..Len(flat) : flat[i] \in M
            THEN flat[CHOOSE i \in 1..Len(flat) :
                        flat[i] \in M /\ \A j \in 1..(i - 1) : flat[j] \notin M]
            ELSE 0]

\* signal_base::connect(callable, type, queue, gid)
connect(S, c, t, gid) ==
  LET s == Len(S.slot) + 1
      G == get_slot(S, has_callable(S.slot, c))
  IN IF G.o # 0 /\ G.st.slot[G.o].m_unique
     THEN [st |-> G.st, conn |-> 0]
     ELSE LET S1 == [G.st EXCEPT !.slot = Append(@, slot_base(c, t, gid))]
              S2 == IF HasBit(t, unique_connection)
                    THEN [S1 EXCEPT !.slot[s].m_unique = TRUE] ELSE S1
          IN [st |-> add_slot(S2, s), conn |-> s]

\* signal_base::connect(pmf, ptr, type, queue, gid)
connect_pmf(S, o, c, t, gid) ==
  LET s == Len(S.slot) + 1
      G == get_slot(S, has_object(S.slot, o) \cap has_callable(S.slot, c))
  IN IF G.o # 0 /\ G.st.slot[G.o].m_unique
     THEN [st |-> G.st, conn |-> 0]
     ELSE LET S1 == [G.st EXCEPT !.slot = Append(@, slot_pmf(slot_base(c, t, gid), o))]
              S2 == IF HasBit(t, unique_connection)
                    THEN [S1 EXCEPT !.slot[s].m_unique = TRUE] ELSE S1
          IN [st |-> add_slot(S2, s), conn |-> s]

\* signal_base::connect(trackable, callable, type, queue, gid)
connect_tracked(S, c, t, gid) ==
  LET r == connect(S, c, t, gid)
  IN IF r.conn = 0 THEN r
     ELSE [r EXCEPT !.st.slot[r.conn] = slot_tracked(r.st.slot[r.conn])]

\* the while loop of disconnect_if over one group, from position i
RECURSIVE sweep(_, _, _, _)
sweep(tab, slts, i, M) ==
  IF i >= Len(slts) THEN [tab |-> tab, slts |-> slts, count |-> 0]
  ELSE IF slts[i + 1] \in M
  THEN LET back == slts[Len(slts)]
           swapped == [slts EXCEPT ![i + 1] = back, ![Len(slts)] = slts[i + 1]]
           r == sweep([tab EXCEPT ![back].m_index = i],
                      SubSeq(swapped, 1, Len(slts) - 1), i, M)
       IN [r EXCEPT !.count = @ + 1]
  ELSE sweep(tab, slts, i + 1, M)

RECURSIVE sweep_groups(_, _, _, _)
sweep_groups(tab, list, g, M) ==
  IF g > Len(list) THEN [tab |-> tab, list |-> list, count |-> 0]
  ELSE LET r == sweep(tab, list[g].slts, 0, M)
           rest == sweep_groups(r.tab, [list EXCEPT ![g].slts = r.slts], g + 1, M)
       IN [rest EXCEPT !.count = @ + r.count]

\* a disconnect_if that counts the matching slots and removes none
disconnect_if_none(S, M) ==
  [st |-> cow_write(S), ret |-> Cardinality(M \cap Stored(m_slots(S)))]

\* signal_base::disconnect_if for the set M of slots that satisfy the condition
disconnect_if(S, M) ==
  LET W == cow_write(S)
      r == sweep_groups(W.slot, m_slots(W), 1, M)
  IN [st |-> [W EXCEPT !.slot = r.tab, !.payload[W.m_data].value = r.list],
      ret |-> r.count]

\* signal_base::disconnect(group_id)
disconnect_group(S, gid) ==
  LET W == cow_write(S)
      gp == FindGroup(m_slots(W), gid)
  IN IF gp = 0 THEN [st |-> W, ret |-> 0]
     ELSE [st |-> [W EXCEPT !.payload[W.m_data].value[gp].slts = <<>>],
           ret |-> Len(m_slots(W)[gp].slts)]

\* signal_base::disconnect_all / clear
disconnect_all(S) ==
  LET W == cow_write(S) IN [W EXCEPT !.payload[W.m_data].value = <<>>]

\* --------------------------------------------------------------- emission
Idle == [pc |-> "idle", ref |-> 0, gi |-> 0, si |-> 0, endGi |-> 0, endSi |-> 0,
         cur |-> 0, log |-> <<>>, snap |-> <<>>, elig |-> {}, stable |-> {},
         pre |-> {}, posted |-> <<>>]

is_current_never(e) == FALSE
\* slot_base::is_current on the thread of emitter e
is_current(e) == e = qthread

\* the thread of the queue is not inside operator()
QueueFree == \A e \in Emitters : e = qthread => emit[e].pc = "idle"

\* a closure posted by call_slot: from is the emitter that waits for it in
\* the blocking branch (0 in the queued branch), ran says that its body part
\* is over and set that it goes on to promise.set_value()
Closure(s, e) == [slot |-> s, live |-> s \notin gone, from |-> e, ran |-> FALSE,
                  set |-> FALSE]

AllIdle == \A e \in Emitters : emit[e].pc = "idle"
Crashed == \E e \in Emitters : emit[e].pc = "crashed"

\* operator() would call the body of s now: slot_base::operator() and can_emit
Eligible(tab, s) == tab[s].m_connected /\ ~tab[s].m_blocked /\ can_emit(tab[s])

\* the range-for over the groups: the next group at or after gi that has a
\* slot, with the end of its vector as read when the inner loop starts
RECURSIVE Seek(_, _, _)
Seek(list, gi, endGi) ==
  IF gi > endGi THEN [done |-> TRUE, gi |-> 0, endSi |-> 0]
  ELSE IF gi > Len(list) THEN [done |-> FALSE, gi |-> gi, endSi |-> 1]
  ELSE IF list[gi].slts = <<>> THEN Seek(list, gi + 1, endGi)
  ELSE [done |-> FALSE, gi |-> gi, endSi |-> Len(list[gi].slts)]

\* ++it of the inner loop, then of the outer loop
Advance(em, list) ==
  IF em.si + 1 <= em.endSi THEN [em EXCEPT !.pc = "iter", !.si = @ + 1, !.cur = 0]
  ELSE LET k == Seek(list, em.gi + 1, em.endGi) IN
       IF k.done
       THEN [em EXCEPT !.pc = "done", !.gi = 0, !.si = 0, !.endGi = 0, !.endSi = 0,
                       !.cur = 0]
       ELSE [em EXCEPT !.pc = "iter", !.gi = k.gi, !.si = 1, !.endSi = k.endSi,
                       !.cur = 0]

\* every emission in progress forgets the slots that stopped being eligible
\* before it invoked them
Settle(em, S, g) ==
  [e \in Emitters |->
     [em[e] EXCEPT !.stable =
        {s \in @ : s \in Range(em[e].log) \/ (Eligible(S.slot, s) /\ s \notin g)},
                   !.snap = Rec("snap", @, <<>>)]]

Commit(S) ==
  /\ slot' = S.slot
  /\ payload' = S.payload
  /\ m_data' = S.m_data
  /\ uaf' = S.uaf

slots_reference_locked(e) == e
\* slots_reference: the holder of m_mutex once it has returned the copy to
\* operator() on the thread of emitter e; its lock_type is a local
slots_reference(e) == 0

\* lock_type lock(m_mutex) can be taken: null_mutex always, std::mutex when
\* no thread holds it
CanLock == policy = "st" \/ m_mutex = 0

\* signal_base::operator(): the m_block test and slots_reference()
EmitBegin(e) ==
  /\ ~Crashed
  /\ CanLock
  /\ m_mutex' = IF policy = "st" THEN 0 ELSE slots_reference(e)
  /\ emit[e].pc = "idle"
  /\ policy = "st" => e = 1
  /\ ~destroyed
  /\ ~m_block
  /\ LET list == payload[m_data].value
         k == Seek(list, 1, Len(list))
         el == Rec("elig", {s \in Stored(list) : Eligible(slot, s)}, {})
         em == [pc |-> IF k.done THEN "done" ELSE "iter", ref |-> m_data,
                gi |-> k.gi, si |-> IF k.done THEN 0 ELSE 1,
                endGi |-> IF k.done THEN 0 ELSE Len(list), endSi |-> k.endSi,
                cur |-> 0, log |-> <<>>, snap |-> Rec("snap", list, <<>>), elig |-> el,
                stable |-> el, pre |-> gone, posted |-> <<>>]
     IN /\ emit' = [emit EXCEPT ![e] = em]
        /\ payload' = IF policy = "st" THEN payload
                      ELSE [payload EXCEPT ![m_data].count = @ + 1]
  /\ nemits' = nemits + 1
  /\ UNCHANGED <<destroyed, task, uaf, policy, slot, m_data, m_block, queue, runs, gone, staleRead, ret, born, watch, qthread, calls, tq, running, obsvars, svcvars, handvars>>

\* operator() called while the signal is blocked returns at once
EmitBlocked(e) ==
  /\ ~Crashed
  /\ emit[e].pc = "idle"
  /\ policy = "st" => e = 1
  /\ ~destroyed
  /\ m_block
  /\ ret' = Rec("ret", Call("emit", "", 0, 0, 0, 0, 0), ret)
  /\ UNCHANGED <<destroyed, task, uaf, policy, slot, payload, m_data, m_block, emit, queue, runs, gone,
                 staleRead, nemits, born, watch, qthread, m_mutex, calls, tq, running, obsvars, svcvars, handvars>>

Outcomes == {-1, 0}

\* The loop reads the entry at its position and calls slot_base::operator()
\* on it, up to can_emit() in call_slot.  An entry beyond the end of the
\* vector is the destroyed shared_ptr of the slot that clean() swapped there
\* and popped: the read crashes (d = -1) or reaches the remains of that slot,
\* whose m_connected is false, and there is nothing to call (d = 0).  The
\* call_slot of a tracked slot first locks the owner and disconnects the slot
\* when the owner is gone.
EmitVisit(e, d) ==
  /\ ~Crashed
  /\ emit[e].pc = "iter"
  /\ d \in Outcomes
  /\ LET em == emit[e]
         list == payload[em.ref].value
         valid == em.gi <= Len(list) /\ em.si <= Len(list[em.gi].slts)
         s == IF valid THEN list[em.gi].slts[em.si] ELSE d
         called == s > 0 /\ slot[s].m_connected /\ ~slot[s].m_blocked
         lost == called /\ slot[s].ptr = "expired"
         S == IF lost THEN slot_disconnect(Sig, s).st ELSE Sig
     IN /\ valid => d = 0
        /\ lost => CanLock
        /\ staleRead' = (staleRead \/ ~valid)
        /\ Commit(S)
        /\ emit' = Settle([emit EXCEPT ![e] =
             IF s = -1 THEN [em EXCEPT !.pc = "crashed"]
             ELSE IF called /\ ~lost /\ can_emit(slot[s])
             THEN [em EXCEPT !.pc = "armed", !.cur = s]
             ELSE Advance(em, S.payload[em.ref].value)], S, gone)
  /\ UNCHANGED <<destroyed, task, policy, m_block, queue, runs, gone, ret, nemits, born, watch, qthread, m_mutex, calls, tq, running, obsvars, svcvars, handvars>>

\* call_slot after can_emit(): set_emitted(), type(), then the connected()
\* test of the direct branch, the PostTask of the queued branch, or the
\* PostTask of the blocking branch followed by the wait on the future
EmitArm(e) ==
  /\ ~Crashed
  /\ emit[e].pc = "armed"
  /\ LET em == emit[e]
         s == em.cur
         t == type(slot[s], is_current(e))
         posts == t \in {queued_connection, blocking_queued_connection}
         tab == [slot EXCEPT ![s].m_emitted = set_emitted(slot[s])]
         S == [Sig EXCEPT !.slot = tab]
         list == payload[em.ref].value
     IN /\ posts => Len(queue) < MaxQueue
        /\ slot' = tab
        /\ queue' = IF t = queued_connection THEN Append(queue, Closure(s, 0))
                    ELSE IF t = blocking_queued_connection THEN Append(queue, Closure(s, e))
                    ELSE queue
        /\ emit' = Settle([emit EXCEPT ![e] =
                      IF t = direct_connection /\ slot[s].m_connected
                      THEN [em EXCEPT !.pc = "body"]
                      ELSE IF t = blocking_queued_connection
                      THEN [em EXCEPT !.pc = "wait", !.posted = Append(@, s)]
                      ELSE IF t = queued_connection
                      THEN Advance([em EXCEPT !.posted = Append(@, s)], list)
                      ELSE Advance(em, list)], S, gone)
  /\ UNCHANGED <<destroyed, task, uaf, policy, payload, m_data, m_block, runs, gone, staleRead, ret, nemits, born, watch, qthread, m_mutex, calls, tq, running, obsvars, svcvars, handvars>>

\* The body of the current slot runs inline; x # 0: the body calls
\* connection::disconnect on the handle of slot x.  Then the single-shot test
\* and slot_state::disconnect, and the loop moves on.
EmitBody(e, x) ==
  /\ ~Crashed
  /\ emit[e].pc = "body"
  /\ x \in 0..Len(slot)
  /\ LET em == emit[e]
         s == em.cur
         S1 == IF x = 0 THEN Sig ELSE conn_disconnect(Sig, x).st
         S2 == IF singleshot_done(S1.slot[s]) THEN slot_disconnect(S1, s).st ELSE S1
         g == IF x = 0 THEN gone ELSE Rec("gone", gone \cup {x}, gone)
         em1 == [em EXCEPT !.log = Append(@, s)]
     IN /\ (x # 0 /\ conn_disconnect(Sig, x).ret) => CanLock
        /\ singleshot_done(S1.slot[s]) /\ S1.slot[s].m_connected => CanLock
        /\ Commit(S2)
        /\ gone' = g
        /\ runs' = [runs EXCEPT ![s] = @ + 1]
        /\ emit' = Settle([emit EXCEPT ![e] = Advance(em1, S2.payload[em.ref].value)],
                          S2, g)
  /\ UNCHANGED <<destroyed, task, policy, m_block, queue, staleRead, ret, nemits, born, watch, qthread, m_mutex, calls, tq, running, obsvars, svcvars, handvars>>

\* operator() returns: the snapshot is destroyed
EmitEnd(e) ==
  /\ m_mutex' = IF m_mutex = e THEN 0 ELSE m_mutex
  /\ ~Crashed
  /\ emit[e].pc = "done"
  /\ payload' = Release(payload, emit[e].ref)
  /\ emit' = [emit EXCEPT ![e] = Idle]
  /\ UNCHANGED <<destroyed, task, uaf, policy, slot, m_data, m_block, queue, runs, gone, staleRead, ret, nemits, born, watch, qthread, calls, tq, running, obsvars, svcvars, handvars>>

\* a closure that tests blocked() as operator() does
closure_called_unblocked(S, s) ==
  Alive(S, s) /\ S.slot[s].m_connected /\ ~S.slot[s].m_blocked

\* the tests of the queued closure before the body: wself.lock() and
\* self->slot_state::connected()
closure_called(S, s) == Alive(S, s) /\ S.slot[s].m_connected

\* The task queue runs the closure posted by the queued branch of call_slot.
\* With signal_st the queue is drained by the one thread that uses the signal.
RunClosure ==
  /\ ~Crashed
  /\ queue # <<>>
  /\ Head(queue).from = 0
  /\ QueueFree
  /\ task = 0
  /\ policy = "st" => AllIdle
  /\ LET s == Head(queue).slot
         called == closure_called(Sig, s)
         S1 == IF called /\ singleshot_done(slot[s]) THEN slot_disconnect(Sig, s).st
               ELSE Sig
     IN /\ called /\ singleshot_done(slot[s]) => CanLock
        /\ Commit(S1)
        /\ runs' = IF called THEN [runs EXCEPT ![s] = @ + 1] ELSE runs
        /\ emit' = Settle(emit, S1, gone)
  /\ queue' = Tail(queue)
  /\ UNCHANGED <<destroyed, task, policy, m_block, gone, staleRead, ret, nemits, born, watch, qthread, m_mutex, calls, tq, running, obsvars, svcvars, handvars>>

promise_set_if_called(called) == called
\* the closure of the blocking branch ends with promise.set_value(), whether
\* or not the body was called
promise_set(called) == TRUE

\* The queue runs the closure of the blocking branch up to set_value(): the
\* connected() test on the captured this, the body, the single-shot
\* disconnect.  The emitter is in the wait and owns the snapshot.
BlockingBody ==
  /\ ~Crashed
  /\ queue # <<>>
  /\ Head(queue).from # 0
  /\ ~Head(queue).ran
  /\ QueueFree
  /\ task = 0
  /\ LET s == Head(queue).slot
         e == Head(queue).from
         called == slot[s].m_connected
         S1 == IF called /\ singleshot_done(slot[s]) THEN slot_disconnect(Sig, s).st
               ELSE Sig
         em == IF called THEN [emit EXCEPT ![e].log = Append(@, s)] ELSE emit
     IN /\ called /\ singleshot_done(slot[s]) => CanLock
        /\ Commit(S1)
        /\ runs' = IF called THEN [runs EXCEPT ![s] = @ + 1] ELSE runs
        /\ emit' = Settle(em, S1, gone)
        /\ queue' = <<[Head(queue) EXCEPT !.ran = TRUE, !.set = promise_set(called)]>>
                      \o Tail(queue)
  /\ UNCHANGED <<destroyed, task, policy, m_block, gone, staleRead, ret, nemits, born,
                 watch, qthread, m_mutex, calls, tq, running, obsvars, svcvars, handvars>>

\* promise.set_value(): the closure is over and the future of the emitter
\* is ready; get() returns and the loop of operator() moves on
BlockingDone ==
  /\ ~Crashed
  /\ queue # <<>>
  /\ Head(queue).ran
  /\ Head(queue).set
  /\ LET e == Head(queue).from
         em == emit[e]
     IN emit' = [emit EXCEPT ![e] = Advance(em, payload[em.ref].value)]
  /\ queue' = Tail(queue)
  /\ UNCHANGED <<destroyed, task, uaf, policy, slot, payload, m_data, m_block, runs, gone,
                 staleRead, ret, nemits, born, watch, qthread, m_mutex, calls, tq, running, obsvars, svcvars, handvars>>

\* ------------------------------------------------------------ API calls
\* A call from outside a slot body: from any thread with signal, from the
\* one thread, between its emissions, with signal_st.
ApiOk == ~Crashed /\ (policy = "mt" \/ (AllIdle /\ task = 0))

\* a call of a member function of the signal needs the signal to exist
SigOk == ApiOk /\ ~destroyed

Connect(c, t, gid) ==
  /\ SigOk
  /\ CanLock
  /\ LET r == connect(Sig, c, t, gid) IN
       /\ Commit(r.st)
       /\ runs' = IF r.conn # 0 THEN Append(runs, 0) ELSE runs
       /\ born' = IF r.conn # 0 THEN Append(born, Rec("born", nemits, 0)) ELSE born
       /\ ret' = Rec("ret", Call("connect", c, t, gid, 0, r.conn, 0), ret)
       /\ emit' = Settle(emit, r.st, gone)
  /\ UNCHANGED <<destroyed, task, policy, m_block, queue, gone, staleRead, nemits, watch, qthread, m_mutex, calls, tq, running, obsvars, svcvars, handvars>>

ConnDisconnect(h) ==
  /\ ApiOk
  /\ h \in 0..Len(slot)
  /\ conn_disconnect(Sig, h).ret => CanLock
  /\ LET r == conn_disconnect(Sig, h) IN
       /\ Commit(r.st)
       /\ ret' = Rec("ret", Call("conn.disconnect", "", 0, 0, h, 0,
                                   IF r.ret THEN 1 ELSE 0), ret)
       /\ gone' = Rec("gone", gone \cup {h}, gone)
       /\ emit' = Settle(emit, r.st, gone')
  /\ UNCHANGED <<destroyed, task, policy, m_block, queue, runs, staleRead, nemits, born, watch, qthread, m_mutex, calls, tq, running, obsvars, svcvars, handvars>>

\* connection::block on the handle of slot h, 0 for an empty handle
Block(h) ==
  /\ ApiOk
  /\ h \in 0..Len(slot)
  /\ LET S == conn_block(Sig, h, TRUE) IN
       /\ Commit(S)
       /\ emit' = Settle(emit, S, gone)
  /\ ret' = Rec("ret", Call("block", "", 0, 0, h, 0, 0), ret)
  /\ UNCHANGED <<destroyed, task, policy, m_block, queue, runs, gone, staleRead, nemits,
                 born, watch, qthread, m_mutex, calls, tq, running, obsvars, svcvars, handvars>>

\* connection::unblock
Unblock(h) ==
  /\ ApiOk
  /\ h \in 0..Len(slot)
  /\ Commit(conn_block(Sig, h, FALSE))
  /\ ret' = Rec("ret", Call("unblock", "", 0, 0, h, 0, 0), ret)
  /\ UNCHANGED <<destroyed, task, policy, m_block, emit, queue, runs, gone, staleRead,
                 nemits, born, watch, qthread, m_mutex, calls, tq, running, obsvars, svcvars, handvars>>

\* The program's connection objects.  h is the slot the object's m_state
\* refers to, 0 when it is empty; an object that is not live does not exist.
ConnObjs == {1, 2}
NoConn == [h |-> 0, scoped |-> FALSE, live |-> FALSE]

\* a scoped_connection whose destructor does nothing
scoped_release_none(S, h) == [st |-> S, ret |-> FALSE]

\* ~scoped_connection and the first statement of its move assignment
scoped_release(S, h) == conn_disconnect(S, h)

\* connection(const connection&), scoped_connection(const connection&): object
\* k is constructed as a copy of the Connection of slot h
MakeConnection(k, h, sc) ==
  /\ ~Crashed
  /\ ~conns[k].live
  /\ h \in 1..Len(slot)
  /\ conns' = [conns EXCEPT ![k] = [h |-> h, scoped |-> sc, live |-> TRUE]]
  /\ UNCHANGED <<destroyed, task, uaf, policy, slot, payload, m_data, m_block, emit, queue, runs, gone,
                 staleRead, ret, nemits, born, watch, qthread, m_mutex, calls, tq, running, obsvars, svcvars, guards>>

\* connection::operator=(const connection&) between two Connection objects
CopyConnection(k, k2) ==
  /\ ~Crashed
  /\ conns[k].live /\ ~conns[k].scoped
  /\ conns[k2].live /\ ~conns[k2].scoped
  /\ conns' = [conns EXCEPT ![k].h = conns[k2].h]
  /\ UNCHANGED <<destroyed, task, uaf, policy, slot, payload, m_data, m_block, emit, queue, runs, gone,
                 staleRead, ret, nemits, born, watch, qthread, m_mutex, calls, tq, running, obsvars, svcvars, guards>>

\* ~connection and ~scoped_connection of object k
DestroyConnection(k) ==
  /\ ApiOk
  /\ conns[k].live
  /\ LET h == conns[k].h
         sc == conns[k].scoped
         r == IF sc THEN scoped_release(Sig, h) ELSE [st |-> Sig, ret |-> FALSE]
     IN /\ r.ret => CanLock
        /\ Commit(r.st)
        /\ ret' = IF sc THEN Rec("ret", Call("~scoped_connection", "", 0, 0, h, 0,
                                              IF r.ret THEN 1 ELSE 0), ret)
                  ELSE ret
        /\ gone' = IF sc THEN Rec("gone", gone \cup {h}, gone) ELSE gone
        /\ emit' = Settle(emit, r.st, gone')
  /\ conns' = [conns EXCEPT ![k] = NoConn]
  /\ UNCHANGED <<destroyed, task, policy, m_block, queue, runs, staleRead, nemits, born, watch, qthread, m_mutex, calls, tq, running, obsvars, svcvars, guards>>

\* scoped_connection::operator=(scoped_connection&&): k = std::move(k2)
MoveAssignScoped(k, k2) ==
  /\ ApiOk
  /\ conns[k].live /\ conns[k].scoped
  /\ conns[k2].live /\ conns[k2].scoped
  /\ LET h == conns[k].h
         r == scoped_release(Sig, h)
     IN /\ r.ret => CanLock
        /\ Commit(r.st)
        /\ ret' = Rec("ret", Call("scoped_connection=", "", 0, 0, h, 0,
                                    IF r.ret THEN 1 ELSE 0), ret)
        /\ gone' = Rec("gone", gone \cup {h}, gone)
        /\ emit' = Settle(emit, r.st, gone')
  /\ conns' = [conns EXCEPT ![k].h = conns[k2].h, ![k2].h = conns[k].h]
  /\ UNCHANGED <<destroyed, task, policy, m_block, queue, runs, staleRead, nemits, born, watch, qthread, m_mutex, calls, tq, running, obsvars, svcvars, guards>>

\* The program's connection_blocker objects, with the slot of their m_state.
BlockerObjs == {1, 2}
NoGuard == [h |-> 0, live |-> FALSE]

\* connection::blocker() on the Connection of slot h: guard g is constructed
Blocker(g, h) ==
  /\ ApiOk
  /\ ~guards[g].live
  /\ h \in 1..Len(slot)
  /\ LET S == conn_block(Sig, h, TRUE) IN
       /\ Commit(S)
       /\ emit' = Settle(emit, S, gone)
  /\ guards' = [guards EXCEPT ![g] = [h |-> h, live |-> TRUE]]
  /\ UNCHANGED <<destroyed, task, policy, m_block, queue, runs, gone, staleRead, ret, nemits,
                 born, watch, qthread, m_mutex, calls, tq, running, obsvars, svcvars, conns>>

\* ~connection_blocker of guard g: release()
BlockerRelease(g) ==
  /\ ApiOk
  /\ guards[g].live
  /\ Commit(conn_block(Sig, guards[g].h, FALSE))
  /\ guards' = [guards EXCEPT ![g] = NoGuard]
  /\ UNCHANGED <<destroyed, task, policy, m_block, emit, queue, runs, gone, staleRead, ret,
                 nemits, born, watch, qthread, m_mutex, calls, tq, running, obsvars, svcvars, conns>>

\* connection_blocker::operator=(connection_blocker&&): g = std::move(g2)
BlockerMoveAssign(g, g2) ==
  /\ ApiOk
  /\ guards[g].live /\ guards[g2].live
  /\ Commit(conn_block(Sig, guards[g].h, FALSE))
  /\ guards' = [guards EXCEPT ![g].h = guards[g2].h, ![g2].h = guards[g].h]
  /\ UNCHANGED <<destroyed, task, policy, m_block, emit, queue, runs, gone, staleRead, ret,
                 nemits, born, watch, qthread, m_mutex, calls, tq, running, obsvars, svcvars, conns>>

\* signal_base::disconnect(const Callable&)
DisconnectCallable(c) ==
  /\ SigOk
  /\ CanLock
  /\ LET M == has_callable(slot, c)
         hit == M \cap Stored(payload[m_data].value)
         r == disconnect_if(Sig, M)
     IN /\ Commit(r.st)
        /\ ret' = Rec("ret", Call("disconnect", c, 0, 0, 0, 0, r.ret), ret)
        /\ gone' = Rec("gone", gone \cup hit, gone)
        /\ emit' = Settle(emit, r.st, gone')
  /\ UNCHANGED <<destroyed, task, policy, m_block, queue, runs, staleRead, nemits, born, watch, qthread, m_mutex, calls, tq, running, obsvars, svcvars, handvars>>

\* signal_base::connect(pmf, ptr, type, queue, gid)
ConnectPmf(o, c, t, gid) ==
  /\ SigOk
  /\ CanLock
  /\ LET r == connect_pmf(Sig, o, c, t, gid) IN
       /\ Commit(r.st)
       /\ runs' = IF r.conn # 0 THEN Append(runs, 0) ELSE runs
       /\ born' = IF r.conn # 0 THEN Append(born, Rec("born", nemits, 0)) ELSE born
       /\ ret' = Rec("ret", Call("connect_pmf", c, t, gid, o, r.conn, 0), ret)
       /\ emit' = Settle(emit, r.st, gone)
  /\ UNCHANGED <<destroyed, task, policy, m_block, queue, gone, staleRead, nemits, watch, qthread, m_mutex, calls, tq, running, obsvars, svcvars, handvars>>

\* signal_base::disconnect(const Obj&); the object goes into field h of the call
DisconnectObject(o) ==
  /\ SigOk
  /\ CanLock
  /\ LET M == has_object(slot, o)
         hit == M \cap Stored(payload[m_data].value)
         r == disconnect_if(Sig, M)
     IN /\ Commit(r.st)
        /\ ret' = Rec("ret", Call("disconnect_object", "", 0, 0, o, 0, r.ret), ret)
        /\ gone' = Rec("gone", gone \cup hit, gone)
        /\ emit' = Settle(emit, r.st, gone')
  /\ UNCHANGED <<destroyed, task, policy, m_block, queue, runs, staleRead, nemits, born, watch, qthread, m_mutex, calls, tq, running, obsvars, svcvars, handvars>>

\* signal_base::disconnect(const Obj&, const Callable&)
DisconnectPair(o, c) ==
  /\ SigOk
  /\ CanLock
  /\ LET M == has_object(slot, o) \cap has_callable(slot, c)
         hit == M \cap Stored(payload[m_data].value)
         r == disconnect_if(Sig, M)
     IN /\ Commit(r.st)
        /\ ret' = Rec("ret", Call("disconnect_pair", c, 0, 0, o, 0, r.ret), ret)
        /\ gone' = Rec("gone", gone \cup hit, gone)
        /\ emit' = Settle(emit, r.st, gone')
  /\ UNCHANGED <<destroyed, task, policy, m_block, queue, runs, staleRead, nemits, born, watch, qthread, m_mutex, calls, tq, running, obsvars, svcvars, handvars>>

\* signal_base::disconnect(group_id)
DisconnectGroup(gid) ==
  /\ SigOk
  /\ CanLock
  /\ LET gp == FindGroup(payload[m_data].value, gid)
         hit == IF gp = 0 THEN {} ELSE Range(payload[m_data].value[gp].slts)
         r == disconnect_group(Sig, gid)
     IN /\ Commit(r.st)
        /\ ret' = Rec("ret", Call("disconnect_group", "", 0, gid, 0, 0, r.ret), ret)
        /\ gone' = Rec("gone", gone \cup hit, gone)
        /\ emit' = Settle(emit, r.st, gone')
  /\ UNCHANGED <<destroyed, task, policy, m_block, queue, runs, staleRead, nemits, born, watch, qthread, m_mutex, calls, tq, running, obsvars, svcvars, handvars>>

\* signal_base::disconnect_all
DisconnectAll ==
  /\ SigOk
  /\ CanLock
  /\ LET hit == Stored(payload[m_data].value)
         S1 == disconnect_all(Sig)
     IN /\ Commit(S1)
        /\ ret' = Rec("ret", Call("disconnect_all", "", 0, 0, 0, 0, 0), ret)
        /\ gone' = Rec("gone", gone \cup hit, gone)
        /\ emit' = Settle(emit, S1, gone')
  /\ UNCHANGED <<destroyed, task, policy, m_block, queue, runs, staleRead, nemits, born, watch, qthread, m_mutex, calls, tq, running, obsvars, svcvars, handvars>>

\* signal_base::block / unblock
SignalBlock ==
  /\ SigOk
  /\ m_block' = ~m_block
  /\ UNCHANGED <<destroyed, task, uaf, policy, slot, payload, m_data, emit, queue, runs, gone, staleRead, ret,
                 nemits, born, watch, qthread, m_mutex, calls, tq, running, obsvars, svcvars, handvars>>

\* signal_base::connect(trackable, callable, type, queue, gid)
ConnectTracked(c, t, gid) ==
  /\ SigOk
  /\ CanLock
  /\ LET r == connect_tracked(Sig, c, t, gid) IN
       /\ Commit(r.st)
       /\ runs' = IF r.conn # 0 THEN Append(runs, 0) ELSE runs
       /\ born' = IF r.conn # 0 THEN Append(born, Rec("born", nemits, 0)) ELSE born
       /\ ret' = Rec("ret", Call("connect", c, t, gid, 0, r.conn, 0), ret)
       /\ emit' = Settle(emit, r.st, gone)
  /\ UNCHANGED <<destroyed, task, policy, m_block, queue, gone, staleRead, nemits, watch, qthread, m_mutex, calls, tq, running, obsvars, svcvars, handvars>>

\* signal_base::connect(ptr, pmf, type, queue, gid) for a pointer that
\* converts to a weak pointer: a slot_pmf_tracked
ConnectPmfTracked(o, c, t, gid) ==
  /\ SigOk
  /\ CanLock
  /\ LET r == connect_pmf(Sig, o, c, t, gid)
         S == IF r.conn = 0 THEN r.st
              ELSE [r.st EXCEPT !.slot[r.conn] = slot_tracked(@)]
     IN /\ Commit(S)
        /\ runs' = IF r.conn # 0 THEN Append(runs, 0) ELSE runs
        /\ born' = IF r.conn # 0 THEN Append(born, Rec("born", nemits, 0)) ELSE born
        /\ ret' = Rec("ret", Call("connect_pmf", c, t, gid, o, r.conn, 0), ret)
        /\ emit' = Settle(emit, S, gone)
  /\ UNCHANGED <<destroyed, task, policy, m_block, queue, gone, staleRead, nemits, watch, qthread, m_mutex, calls, tq, running, obsvars, svcvars, handvars>>

\* the queued closure of a slot_pmf_tracked captures sp, the locked owner;
\* the closure of a slot_tracked captures only wself and the arguments
ClosureKeepsOwner(s) ==
  slot[s].obj # 0 /\ \E i \in 1..Len(queue) : queue[i].slot = s /\ queue[i].from = 0

\* The last shared_ptr to the owner of tracked slot s is dropped.  While the
\* call_slot of s holds the owner locked the owner stays, and so it does
\* while a posted closure holds a copy of that shared_ptr.
OwnerDestroyed(s) ==
  /\ ApiOk
  /\ s \in 1..Len(slot)
  /\ slot[s].ptr = "live"
  /\ \A e \in Emitters : emit[e].pc \in {"armed", "body"} => emit[e].cur # s
  /\ ~ClosureKeepsOwner(s)
  /\ slot' = [slot EXCEPT ![s].ptr = "expired"]
  /\ emit' = Settle(emit, [Sig EXCEPT !.slot = slot'], gone \cup {s})
  /\ UNCHANGED <<destroyed, task, uaf, policy, payload, m_data, m_block, queue, runs, gone,
                 staleRead, ret, nemits, born, watch, qthread, m_mutex, calls, tq, running, obsvars, svcvars, handvars>>

\* ~signal_base: disconnect_all(), then the members are destroyed.  The owner
\* destroys the signal when no thread is inside one of its member functions.
Destroy ==
  /\ SigOk
  /\ AllIdle
  /\ LET hit == Stored(payload[m_data].value)
         S1 == disconnect_all(Sig)
         S2 == [S1 EXCEPT !.payload = Release(S1.payload, S1.m_data)]
     IN /\ Commit(S2)
        /\ gone' = Rec("gone", gone \cup hit, gone)
        /\ emit' = Settle(emit, S2, gone')
  /\ destroyed' = TRUE
  /\ ret' = Rec("ret", Call("destroy", "", 0, 0, 0, 0, 0), ret)
  /\ UNCHANGED <<task, policy, m_block, queue, runs, staleRead, nemits, born, watch, qthread, m_mutex, calls, tq, running, obsvars, svcvars, handvars>>

\* The queue thread starts the closure at the head of the queue: wself.lock()
ClosureBegin ==
  /\ ~Crashed
  /\ queue # <<>>
  /\ Head(queue).from = 0
  /\ QueueFree
  /\ task = 0
  /\ policy = "st" => AllIdle
  /\ task' = IF Alive(Sig, Head(queue).slot) THEN Head(queue).slot ELSE 0
  /\ queue' = Tail(queue)
  /\ UNCHANGED <<destroyed, uaf, policy, slot, payload, m_data, m_block, emit, runs, gone,
                 staleRead, ret, nemits, born, watch, qthread, m_mutex, calls, tq, running, obsvars, svcvars, handvars>>

\* The rest of the closure: the connected() test, the body, the single-shot
\* disconnect; then self is dropped.
ClosureEnd ==
  /\ ~Crashed
  /\ task # 0
  /\ LET s == task
         called == slot[s].m_connected
         S1 == IF called /\ singleshot_done(slot[s]) THEN slot_disconnect(Sig, s).st
               ELSE Sig
     IN /\ called /\ singleshot_done(slot[s]) => CanLock
        /\ Commit(S1)
        /\ runs' = IF called THEN [runs EXCEPT ![s] = @ + 1] ELSE runs
        /\ emit' = Settle(emit, S1, gone)
  /\ task' = 0
  /\ UNCHANGED <<destroyed, policy, m_block, queue, gone, staleRead, ret, nemits, born,
                 watch, qthread, m_mutex, calls, tq, running, obsvars, svcvars, handvars>>

\* The body of the current slot throws: nothing in call_slot or operator()
\* catches, the snapshot is destroyed by the unwinding and the exception
\* leaves operator().
EmitThrow(e) ==
  /\ m_mutex' = IF m_mutex = e THEN 0 ELSE m_mutex
  /\ ~Crashed
  /\ emit[e].pc = "body"
  /\ LET em == emit[e] IN
       /\ runs' = [runs EXCEPT ![em.cur] = @ + 1]
       /\ payload' = Release(payload, em.ref)
       /\ emit' = [emit EXCEPT ![e] =
            [em EXCEPT !.pc = "threw", !.log = Append(@, em.cur), !.ref = 0, !.gi = 0,
                       !.si = 0, !.endGi = 0, !.endSi = 0, !.cur = 0]]
  /\ UNCHANGED <<destroyed, task, uaf, policy, slot, m_data, m_block, queue, gone,
                 staleRead, ret, nemits, born, watch, qthread, calls, tq, running, obsvars, svcvars, handvars>>

\* The exception has left operator(): the calling thread goes on after
\* handling it.
EmitEscaped(e) ==
  /\ ~Crashed
  /\ emit[e].pc = "threw"
  /\ emit' = [emit EXCEPT ![e] = Idle]
  /\ UNCHANGED <<destroyed, task, uaf, policy, slot, payload, m_data, m_block, queue,
                 runs, gone, staleRead, ret, nemits, born, watch, qthread, m_mutex, calls, tq, running, obsvars, svcvars, handvars>>

\* ---------------------------------------------------------------- proxy.hpp
\* A proxy method builds a MethodCall and marshals it to the task queue of
\* the proxy.  Threads t1 and t2 are foreign to the queue; QueueThread is the
\* thread that runs the queue's closures.
QueueThread == "tq"
Callers == {"t1", "t2", QueueThread}
Args == {21, 42}

IsCurrent_always(t) == TRUE
IsCurrent_never(t) == FALSE
\* tq->IsCurrent() evaluated on thread t
IsCurrent(t) == t = QueueThread

sema_ready_always(n) == TRUE
\* sema_.wait() can return: the count is positive
sema_ready(n) == n > 0

\* the target method of the example
CalculateOnMainThread(value) == value * 2

\* A MethodCall and the frame of the proxy method that made it.  pc is the
\* position of the calling thread; n, on, posts, waits, signals, fin and
\* dangling record what has happened to this call.
NoCall == [pc |-> "idle", id |-> 0, a1 |-> 0, frame |-> FALSE, r_ |-> 0, sema_ |-> 0,
           out |-> 0, n |-> 0, on |-> "", posts |-> 0, waits |-> 0, signals |-> 0,
           fin |-> FALSE, dangling |-> FALSE]

\* the closure the queue thread runs; last says that the closure that just
\* ended held the last shared_ptr to its MethodCall
NoTask == [pc |-> "idle", c |-> "", id |-> 0, arg |-> 0, last |-> FALSE]

\* PROXY_METHOD1 up to the wait of marshal(): make_shared<MethodCall>, then
\* either the inline branch or PostTask followed by sema_.wait()
MarshalBegin(c, a) ==
  /\ calls[c].pc = "idle"
  /\ calls[c].id < MaxCalls
  /\ c = QueueThread => running.pc = "idle"
  /\ LET new == [NoCall EXCEPT !.id = calls[c].id + 1, !.a1 = a, !.frame = TRUE] IN
       IF IsCurrent(c)
       THEN /\ calls' = [calls EXCEPT ![c] = [new EXCEPT !.pc = "inline"]]
            /\ tq' = tq
       ELSE /\ calls' = [calls EXCEPT ![c] = [new EXCEPT !.pc = "wait", !.posts = 1,
                                                        !.waits = 1]]
            /\ tq' = Append(tq, [c |-> c, id |-> new.id])
  /\ UNCHANGED <<sigvars, obsvars, svcvars, running>>

\* the inline branch: invoke() on the calling thread
MarshalInline(c) ==
  /\ calls[c].pc = "inline"
  /\ calls' = [calls EXCEPT ![c] = [@ EXCEPT !.pc = "get",
                                              !.r_ = CalculateOnMainThread(calls[c].a1),
                                              !.n = @ + 1, !.on = c, !.fin = TRUE]]
  /\ UNCHANGED <<sigvars, obsvars, svcvars, tq, running>>

\* sema_.wait() returns
MarshalWake(c) ==
  /\ calls[c].pc = "wait"
  /\ sema_ready(calls[c].sema_)
  /\ calls' = [calls EXCEPT ![c] = [@ EXCEPT !.pc = "get",
                                              !.sema_ = IF @ > 0 THEN @ - 1 ELSE @]]
  /\ UNCHANGED <<sigvars, obsvars, svcvars, tq, running>>

\* return r_.get(): the proxy method returns, its frame and its shared_ptr
\* to the MethodCall are gone
MarshalReturn(c) ==
  /\ calls[c].pc = "get"
  /\ calls' = [calls EXCEPT ![c] = [@ EXCEPT !.pc = "idle", !.out = calls[c].r_,
                                              !.frame = FALSE]]
  /\ UNCHANGED <<sigvars, obsvars, svcvars, tq, running>>

\* The queue thread takes the next closure; wself.lock() succeeds when the
\* MethodCall is still owned by its proxy method.
TaskBegin ==
  /\ running.pc = "idle"
  /\ calls[QueueThread].pc = "idle"
  /\ tq # <<>>
  /\ LET k == Head(tq)
         locked == calls[k.c].id = k.id /\ calls[k.c].pc # "idle"
     IN running' = IF locked THEN [NoTask EXCEPT !.pc = "invoke", !.c = k.c, !.id = k.id]
                   ELSE NoTask
  /\ tq' = Tail(tq)
  /\ UNCHANGED <<sigvars, obsvars, svcvars, calls>>

\* self->invoke(): the arguments are read through the references of args_,
\* which point into the frame of the proxy method; a read of a frame that is
\* gone yields any value
TaskInvoke ==
  /\ running.pc = "invoke"
  /\ LET c == running.c
         same == calls[c].id = running.id
         ok == same /\ calls[c].frame
     IN /\ \E v \in (IF ok THEN {calls[c].a1} ELSE Args) :
             running' = [running EXCEPT !.pc = "store", !.arg = v]
        /\ calls' = IF same
                    THEN [calls EXCEPT ![c] = [@ EXCEPT !.n = @ + 1, !.on = QueueThread,
                                                        !.dangling = ~ok]]
                    ELSE calls
  /\ UNCHANGED <<sigvars, obsvars, svcvars, tq>>

\* the method returns and ReturnType::invoke stores its value in r_
TaskStore ==
  /\ running.pc = "store"
  /\ LET c == running.c IN
       calls' = IF calls[c].id = running.id
                THEN [calls EXCEPT ![c] = [@ EXCEPT
                        !.r_ = CalculateOnMainThread(running.arg), !.fin = TRUE]]
                ELSE calls
  /\ running' = [running EXCEPT !.pc = "signal"]
  /\ UNCHANGED <<sigvars, obsvars, svcvars, tq>>

\* self->sema_.signal(); self is still in scope
TaskSignal ==
  /\ running.pc = "signal"
  /\ LET c == running.c IN
       calls' = IF calls[c].id = running.id
                THEN [calls EXCEPT ![c] = [@ EXCEPT !.sema_ = @ + 1, !.signals = @ + 1]]
                ELSE calls
  /\ running' = [running EXCEPT !.pc = "release"]
  /\ UNCHANGED <<sigvars, obsvars, svcvars, tq>>

\* the positions of the closure at which its local shared_ptr self exists:
\* from wself.lock() to the closing brace of the if, after sema_.signal()
ClosureHolds(pc) == pc \in {"invoke", "store", "signal", "release"}

\* the proxy method of caller c still holds its shared_ptr call to the
\* MethodCall the closure works on
CallerHolds(c, id) == calls[c].id = id /\ calls[c].pc # "idle"

\* the closing brace of the if: self is released, and the MethodCall is
\* destroyed here, on the queue thread, when the proxy method has returned
TaskRelease ==
  /\ running.pc = "release"
  /\ running' = [NoTask EXCEPT !.last = ~CallerHolds(running.c, running.id)]
  /\ UNCHANGED <<sigvars, obsvars, svcvars, tq, calls>>

\* ----------------------------------------------------------- observable.hpp
\* enum class ObserverPriority { High, Normal, Low }
High == 0
Normal == 1
Low == 2
Priorities == {High, Normal, Low}

\* the observer objects of the program; each starts with one owner
Observers == {"a", "b", "c"}

\* Wrapper<T>: a StrongRef (weak = FALSE) or a WeakRef entry; queued says
\* that taskQ is a queue other than the notifying thread, tokenId is 0 for
\* an entry added without a token
Wrapper(o, w, q, p, id) ==
  [observer |-> o, weak |-> w, queued |-> q, priority |-> p, tokenId |-> id]

\* an Observable call and its result
ObsCall(op, n, b) == [op |-> op, n |-> n, b |-> b]
NoCallYet == ObsCall("none", 0, FALSE)

\* A notify call: list is sortedObservers and i the position of the loop;
\* keep is options.preserveOrder and pred says that a predicate was passed.
\* log, posted, disp, errs and snap record the callbacks invoked inline, the
\* closures posted, the priorities dispatched in order, the calls of the
\* error handler and the observers of the snapshot that were alive; inner
\* records the observers visited by the last notify call made from inside a
\* callback of this one.
NoNotify == [pc |-> "idle", list |-> <<>>, i |-> 0, pred |-> FALSE, keep |-> FALSE,
             log |-> <<>>, posted |-> <<>>, disp |-> <<>>, errs |-> 0, snap |-> {},
             inner |-> <<>>]

\* the observer object exists: the program, a StrongRef entry, the snapshot
\* of a notify in progress or a posted closure holds a shared_ptr to it
Exists(list, o) ==
  \/ o \in owners
  \/ \E i \in 1..Len(list) : list[i].observer = o /\ ~list[i].weak
  \/ \E i \in 1..Len(ntf.list) : ntf.list[i].observer = o /\ ~ntf.list[i].weak
  \/ \E i \in 1..Len(oq) : oq[i] = o

\* _findObserver_nolock: the position of the entry of observer o, 0 if none;
\* a WeakRef matches only if it can be locked
RECURSIVE FindFrom(_, _, _)
FindFrom(list, o, i) ==
  IF i > Len(list) THEN 0
  ELSE IF list[i].observer = o /\ (list[i].weak => Exists(list, o)) THEN i
  ELSE FindFrom(list, o, i + 1)

_findObserver_nolock(list, o) == FindFrom(list, o, 1)

_hasObserver_nolock(list, o) == _findObserver_nolock(list, o) # 0

\* _countValidObservers_nolock
_countValidObservers_nolock(list) ==
  Cardinality({i \in 1..Len(list) : list[i].weak => Exists(list, list[i].observer)})

\* the comparison both sorts and the insertion use: a > b on the enumerators
Greater(a, b) == a.priority > b.priority

\* _insertWithPriority: the walk from the front to the first entry that the
\* new one is greater than
RECURSIVE InsertWalk(_, _, _)
InsertWalk(list, ref, i) ==
  IF i > Len(list) THEN Append(list, ref)
  ELSE IF Greater(ref, list[i])
  THEN SubSeq(list, 1, i - 1) \o <<ref>> \o SubSeq(list, i, Len(list))
  ELSE InsertWalk(list, ref, i + 1)

_insertWithPriority(list, ref) ==
  IF list = <<>> \/ ref.priority = Low THEN Append(list, ref)
  ELSE InsertWalk(list, ref, 1)

\* std::list::sort with the comparison Greater: a stable sort
RECURSIVE StableInsert(_, _, _)
StableInsert(sorted, x, i) ==
  IF i > Len(sorted) THEN Append(sorted, x)
  ELSE IF Greater(x, sorted[i])
  THEN SubSeq(sorted, 1, i - 1) \o <<x>> \o SubSeq(sorted, i, Len(sorted))
  ELSE StableInsert(sorted, x, i + 1)

RECURSIVE SortFrom(_, _, _)
SortFrom(list, i, acc) ==
  IF i > Len(list) THEN acc ELSE SortFrom(list, i + 1, StableInsert(acc, list[i], 1))

_sortByPriority(list) == SortFrom(list, 1, <<>>)

\* std::sort with the comparison Greater: every arrangement of the entries
\* in which no entry is greater than one before it (the order of equal
\* entries is unspecified)
Arrangements(list) ==
  LET n == Len(list)
      P == {f \in [1..n -> 1..n] : \A i, j \in 1..n : i # j => f[i] # f[j]}
  IN {[i \in 1..n |-> list[f[i]]] : f \in P}

std_sort(list) ==
  {s \in Arrangements(list) :
     \A i, j \in 1..Len(s) : i < j => ~Greater(s[j], s[i])}

\* list::remove_if: the entries that pass keep their order
RemoveIf(list, Hit(_)) == SelectSeq(list, LAMBDA r : ~Hit(r))

\* a cleanup that removes nothing
cleanup_none(list) == list

\* _cleanupWeakReferences: the list afterwards
_cleanupWeakReferences(list) ==
  RemoveIf(list, LAMBDA r : r.weak /\ ~Exists(list, r.observer))

removeObserverByToken_all(list, id) == <<>>
\* removeObserverByToken: the list afterwards
removeObserverByToken(list, id) == RemoveIf(list, LAMBDA r : r.tokenId = id)

\* removeObserver: the list afterwards
removeObserver(list, o) ==
  RemoveIf(list, LAMBDA r : r.observer = o /\ (r.weak => Exists(list, o)))

\* addObserver / addObserverWeakRef; the caller passes a shared_ptr, so it
\* owns the observer
AddObserver(o, w, q, p, id) ==
  /\ o \in owners
  /\ _observers' = IF _hasObserver_nolock(_observers, o) THEN _observers
                   ELSE _insertWithPriority(_observers, Wrapper(o, w, q, p, id))
  /\ oret' = ObsCall("add", 0, FALSE)
  /\ UNCHANGED <<sigvars, proxyvars, svcvars, owners, _notificationCounter, _weakRefCleanupFrequency, nextId, tokens, ntf, oq>>

\* addObservers, for a vector of two observers
RECURSIVE AddAll(_, _, _)
AddAll(list, os, p) ==
  IF os = <<>> THEN list
  ELSE AddAll(IF _hasObserver_nolock(list, Head(os)) THEN list
              ELSE _insertWithPriority(list, Wrapper(Head(os), FALSE, FALSE, p, 0)),
              Tail(os), p)

AddObservers(os, p) ==
  /\ \A i \in 1..Len(os) : os[i] \in owners
  /\ _observers' = AddAll(_observers, os, p)
  /\ oret' = ObsCall("addObservers", 0, FALSE)
  /\ UNCHANGED <<sigvars, proxyvars, svcvars, owners, _notificationCounter, _weakRefCleanupFrequency, nextId, tokens, ntf, oq>>

\* setObserverPriority
SetObserverPriority(o, p) ==
  /\ o \in owners
  /\ LET i == _findObserver_nolock(_observers, o) IN
       /\ _observers' = IF i = 0 THEN _observers
                        ELSE _sortByPriority([_observers EXCEPT ![i].priority = p])
       /\ oret' = ObsCall("setObserverPriority", 0, i # 0)
  /\ UNCHANGED <<sigvars, proxyvars, svcvars, owners, _notificationCounter, _weakRefCleanupFrequency, nextId, tokens, ntf, oq>>

RemoveObserver(o) ==
  /\ o \in owners
  /\ _observers' = removeObserver(_observers, o)
  /\ oret' = ObsCall("removeObserver", 0, FALSE)
  /\ UNCHANGED <<sigvars, proxyvars, svcvars, owners, _notificationCounter, _weakRefCleanupFrequency, nextId, tokens, ntf, oq>>

\* ObserverToken(): the id the new token gets
\* (fetch_add returns the value before the addition; an id of 0 is replaced
\* by the next one.  nextId is a size_t that starts at 1.)
NewToken ==
  /\ LET id == IF nextId = 0 THEN nextId + 1 ELSE nextId IN
       /\ nextId' = id + 1
       /\ tokens' = Append(tokens, id)
       /\ oret' = ObsCall("createToken", id, FALSE)
  /\ UNCHANGED <<sigvars, proxyvars, svcvars, _observers, owners, _notificationCounter, _weakRefCleanupFrequency, ntf, oq>>

RemoveObserverByToken(id) ==
  /\ LET after == removeObserverByToken(_observers, id) IN
       /\ _observers' = after
       /\ oret' = ObsCall("removeObserverByToken", id, Len(_observers) > Len(after))
  /\ UNCHANGED <<sigvars, proxyvars, svcvars, owners, _notificationCounter, _weakRefCleanupFrequency, nextId, tokens, ntf, oq>>

\* the program drops its shared_ptr to observer o
ReleaseObserver(o) ==
  /\ o \in owners
  /\ owners' = owners \ {o}
  /\ UNCHANGED <<sigvars, proxyvars, svcvars, _observers, _notificationCounter, _weakRefCleanupFrequency, nextId, tokens, ntf, oq,
                 oret>>

NumOfObservers ==
  /\ oret' = ObsCall("numOfObservers", _countValidObservers_nolock(_observers), FALSE)
  /\ UNCHANGED <<sigvars, proxyvars, svcvars, _observers, owners, _notificationCounter, _weakRefCleanupFrequency, nextId, tokens,
                 ntf, oq>>

PerformWeakRefCleanup ==
  /\ LET after == _cleanupWeakReferences(_observers) IN
       /\ _observers' = after
       /\ oret' = ObsCall("performWeakRefCleanup", Len(_observers) - Len(after), FALSE)
  /\ UNCHANGED <<sigvars, proxyvars, svcvars, owners, _notificationCounter, _weakRefCleanupFrequency, nextId, tokens, ntf, oq>>

\* setWeakRefCleanupFrequency
SetWeakRefCleanupFrequency(f) ==
  /\ f \in 0..MaxFrequency
  /\ _weakRefCleanupFrequency' = IF f > 0 THEN f ELSE 1
  /\ UNCHANGED <<sigvars, proxyvars, svcvars, _observers, owners, _notificationCounter, nextId, tokens,
                 ntf, oq, oret>>

\* notifyObservers (pred = FALSE) and notifyObserversIf (pred = TRUE) up to
\* the loop of _notifyObserversImpl: the counter and the cleanup when one is
\* due, the copy of the list, and the sort unless preserveOrder is set
NotifyBegin(pred, preserveOrder, skipWeakRefCleanup) ==
  /\ ntf.pc = "idle"
  /\ LET count == IF skipWeakRefCleanup THEN _notificationCounter
                  ELSE _notificationCounter + 1
         due == ~skipWeakRefCleanup /\ count % _weakRefCleanupFrequency = 0
         copy == IF due THEN _cleanupWeakReferences(_observers) ELSE _observers
     IN /\ _notificationCounter' = count
        /\ _observers' = copy
        /\ \E s \in (IF preserveOrder THEN {copy} ELSE std_sort(copy)) :
             ntf' = [NoNotify EXCEPT
                       !.pc = IF s = <<>> THEN "done" ELSE "loop",
                       !.list = s, !.i = 1, !.pred = pred, !.keep = preserveOrder,
                       !.snap = {s[k].observer : k \in
                                   {k \in 1..Len(s) : s[k].weak => Exists(copy, s[k].observer)}}]
  /\ oret' = ObsCall("notify", 0, skipWeakRefCleanup)
  /\ UNCHANGED <<sigvars, proxyvars, svcvars, owners, _weakRefCleanupFrequency, nextId, tokens, oq>>

PredicateOutcomes == {"true", "false", "throws", "throws_other"}
CallbackOutcomes == {"returns", "throws", "throws_other"}

\* One pass of the loop of _notifyObserversImpl: lock the observer, evaluate
\* the predicate (pr), then call the callback inline (cb) or post it.  An
\* exception derived from std::exception is "throws", any other exception
\* "throws_other".
NotifyStep(pr, cb) ==
  /\ ntf.pc = "loop"
  /\ pr \in PredicateOutcomes
  /\ cb \in CallbackOutcomes
  /\ LET r == ntf.list[ntf.i]
         o == r.observer
         locked == r.weak => Exists(_observers, o)
         nextpc == IF ntf.i = Len(ntf.list) THEN "done" ELSE "loop"
         on == [ntf EXCEPT !.i = @ + 1, !.pc = nextpc]
     IN /\ ~ntf.pred => pr = "true"
        /\ (~locked \/ pr # "true" \/ r.queued) => cb = "returns"
        /\ ~locked => pr = "true"
        /\ ntf' =
             IF ~locked THEN on
             ELSE IF pr = "false" THEN on
             ELSE IF pr = "throws" THEN [on EXCEPT !.errs = @ + 1]
             ELSE IF pr = "throws_other"
             THEN [ntf EXCEPT !.pc = "escaped", !.list = <<>>, !.i = 0]
             ELSE IF r.queued
             THEN [on EXCEPT !.posted = Append(@, o), !.disp = Append(@, r.priority)]
             ELSE [on EXCEPT !.log = Append(@, o), !.disp = Append(@, r.priority),
                             !.errs = IF cb = "returns" THEN @ ELSE @ + 1]
        /\ oq' = IF locked /\ pr = "true" /\ r.queued THEN Append(oq, o) ELSE oq
  /\ UNCHANGED <<sigvars, proxyvars, svcvars, _observers, owners, _notificationCounter,
                 _weakRefCleanupFrequency, nextId, tokens, oret>>

\* the notify call returns, or the exception that left it has been handled
\* by the caller
NotifyReturn ==
  /\ ntf.pc \in {"done", "escaped"}
  /\ ntf' = NoNotify
  /\ UNCHANGED <<sigvars, proxyvars, svcvars, _observers, owners, _notificationCounter,
                 _weakRefCleanupFrequency, nextId, tokens, oq, oret>>

\* a notify that keeps its shared lock while the loop runs
NotifyHolds_loop(pc) == IF pc \in {"loop", "done"} THEN "shared" ELSE "none"

\* the lock on _mutex the notify call holds at position pc: the unique_lock
\* and the shared_lock are locals of the block that copies the list, which
\* ends before _notifyObserversImpl is called
NotifyHolds(pc) == "none"

\* std::unique_lock<std::shared_mutex> lock(_mutex) can be taken
lock_unique == NotifyHolds(ntf.pc) = "none"

\* a callback of the notification in progress is running or has just
\* returned
InCallback == ntf.pc \in {"loop", "done"} /\ ntf.log # <<>>

\* clearObservers
ClearObservers ==
  /\ lock_unique
  /\ _observers' = <<>>
  /\ oret' = ObsCall("clearObservers", 0, FALSE)
  /\ UNCHANGED <<sigvars, proxyvars, svcvars, owners, _notificationCounter, _weakRefCleanupFrequency, nextId, tokens, ntf, oq>>

\* the observers of list a notify call reaches: those it can lock
Reached(list, all) ==
  SelectSeq(list, LAMBDA r : r.weak => Exists(all, r.observer))

\* notifyObservers called from inside an inline callback: the counter and
\* the cleanup when one is due, the copy, the sort, and the whole loop with
\* callbacks that return
NestedNotify(preserveOrder, skipWeakRefCleanup) ==
  /\ InCallback
  /\ lock_unique
  /\ LET count == IF skipWeakRefCleanup THEN _notificationCounter
                  ELSE _notificationCounter + 1
         due == ~skipWeakRefCleanup /\ count % _weakRefCleanupFrequency = 0
         copy == IF due THEN _cleanupWeakReferences(_observers) ELSE _observers
     IN /\ _notificationCounter' = count
        /\ _observers' = copy
        /\ \E s \in (IF preserveOrder THEN {copy} ELSE std_sort(copy)) :
             LET seen == Reached(s, copy)
                 inl == SelectSeq(seen, LAMBDA r : ~r.queued)
                 pst == SelectSeq(seen, LAMBDA r : r.queued)
             IN /\ ntf' = [ntf EXCEPT !.inner = [k \in 1..Len(inl) |-> inl[k].observer]]
                /\ oq' = oq \o [k \in 1..Len(pst) |-> pst[k].observer]
  /\ oret' = ObsCall("notify", 1, skipWeakRefCleanup)
  /\ UNCHANGED <<sigvars, proxyvars, svcvars, owners, _weakRefCleanupFrequency, nextId, tokens>>

\* the observers' queue runs a posted closure: the callback in a try block
\* that catches everything
ObsTask ==
  /\ oq # <<>>
  /\ oq' = Tail(oq)
  /\ UNCHANGED <<sigvars, proxyvars, svcvars, _observers, owners, _notificationCounter,
                 _weakRefCleanupFrequency, nextId, tokens, ntf, oret>>

\* ---------------------------------------------------------- specifications
NoRet == Call("none", "", 0, 0, 0, 0, 0)

\* ------------------------------------------- signal_base move operations
\* Two signal objects of the thread-safe policy, 1 and 2, with one group.
\* st is "none" before construction, "live", and "dead" after destruction;
\* every slot carries m_cleaner, the signal_base its constructor was given
\* (make_slot passes *this), its index and its connected flag.  ret records
\* the last Connection::disconnect: the handle, the signal that stored the
\* slot, the signal clean ran on, and the slot_count of the storing signal
\* before the call.
Signals == {1, 2}
NoMove == [st |-> [g \in Signals |-> IF g = 1 THEN "live" ELSE "none"],
           m_slots |-> [g \in Signals |-> <<>>],
           slots |-> <<>>, uaf |-> FALSE,
           ret |-> [h |-> 0, in |-> 0, via |-> 0, before |-> 0]]

\* the signal whose storage holds slot h, 0 when none does
StoredIn(M, h) ==
  IF \E g \in Signals : h \in Range(M.m_slots[g])
  THEN CHOOSE g \in Signals : h \in Range(M.m_slots[g]) ELSE 0

\* signal_base::connect on signal g: make_slot(*this, ...) and add_slot
MovedConnect(g) ==
  /\ mv.st[g] = "live"
  /\ mv' = [mv EXCEPT
       !.slots = Append(@, [m_cleaner |-> g, m_index |-> Len(mv.m_slots[g]),
                            m_connected |-> TRUE]),
       !.m_slots[g] = Append(@, Len(mv.slots) + 1)]
  /\ UNCHANGED <<sigvars, proxyvars, obsvars, pool, sched>>

\* signal_base(): signal 2 is constructed empty
DefaultConstruct ==
  /\ mv.st[2] = "none"
  /\ mv' = [mv EXCEPT !.st[2] = "live"]
  /\ UNCHANGED <<sigvars, proxyvars, obsvars, pool, sched>>

\* signal_base(signal_base&& o), o = 1: the new signal 2 swaps its empty
\* m_slots with o.m_slots
MoveConstruct ==
  /\ mv.st[1] = "live" /\ mv.st[2] = "none"
  /\ mv' = [mv EXCEPT !.st[2] = "live", !.m_slots[2] = mv.m_slots[1],
                      !.m_slots[1] = <<>>]
  /\ UNCHANGED <<sigvars, proxyvars, obsvars, pool, sched>>

\* signal_base::operator=(signal_base&& o) on signal d with o = s: swap
MoveAssign(d, s) ==
  /\ d # s
  /\ mv.st[d] = "live" /\ mv.st[s] = "live"
  /\ mv' = [mv EXCEPT !.m_slots[d] = mv.m_slots[s], !.m_slots[s] = mv.m_slots[d]]
  /\ UNCHANGED <<sigvars, proxyvars, obsvars, pool, sched>>

\* ~signal_base of signal g: disconnect_all() clears the storage
MovedDestroy(g) ==
  /\ mv.st[g] = "live"
  /\ mv' = [mv EXCEPT !.st[g] = "dead", !.m_slots[g] = <<>>]
  /\ UNCHANGED <<sigvars, proxyvars, obsvars, pool, sched>>

\* the signal do_disconnect calls clean on: the reference m_cleaner, bound
\* in the constructor of the slot and never rebound
cleaner(M, h) == M.slots[h].m_cleaner

\* Connection::disconnect on the handle of slot h: the weak_ptr locks while
\* a storage holds the slot; slot_state::disconnect clears m_connected and
\* do_disconnect calls m_cleaner.clean(this).  A clean through a reference
\* to a destroyed signal is a use after free.
MovedDisconnect(h) ==
  /\ h \in 1..Len(mv.slots)
  /\ StoredIn(mv, h) # 0
  /\ mv.slots[h].m_connected
  /\ LET c == cleaner(mv, h)
         slts == mv.m_slots[c]
         idx == mv.slots[h].m_index
         M1 == [mv EXCEPT !.slots[h].m_connected = FALSE,
                          !.ret = [h |-> h, in |-> StoredIn(mv, h), via |-> c,
                                   before |-> Len(mv.m_slots[StoredIn(mv, h)])]]
     IN mv' = IF mv.st[c] = "dead" THEN [M1 EXCEPT !.uaf = TRUE]
              ELSE IF idx < Len(slts) /\ slts[idx + 1] = h
              THEN LET back == slts[Len(slts)] IN
                   [M1 EXCEPT !.slots[back].m_index = idx,
                              !.m_slots[c] = SubSeq([slts EXCEPT ![idx + 1] = back],
                                                    1, Len(slts) - 1)]
              ELSE M1
  /\ UNCHANGED <<sigvars, proxyvars, obsvars, pool, sched>>

\* ----------------------------------------------------------- TaskScheduler
\* The scheduler after initializeMainThread() and start().  m_mutex is the
\* thread that holds the std::mutex, "" when it is free; main and w are the
\* positions of the main thread and of a worker thread; pending counts the
\* tasks posted to the main thread and ran those it has run; waited says
\* that the last call of the worker had to wait for m_mutex.
MainThread == "MainThread"
ThreadNames == {MainThread, "net"}
SchedApi == {"dispatch", "dispatchAfter", "getThread", "createThread", "removeThread",
             "isCurrentThread", "getThreadNames"}
NoSched == [m_mutex |-> "", main |-> "idle", w |-> "idle", pending |-> 0, ran |-> 0,
            m_threads |-> {MainThread}, wcall |-> <<>>, waited |-> FALSE]

\* processMessages up to m_mainThread->ProcessMessages(timeout): the
\* lock_guard on m_mutex is a local of the whole function
processMessages(S) == [S EXCEPT !.m_mutex = "main", !.main = "processing"]

\* the call takes m_mutex: every function of SchedApi locks, directly or in
\* findThread, except removeThread("MainThread"), which returns before
TakesMutex(api, name) == ~(api = "removeThread" /\ name = MainThread)

\* the effect of a call of the scheduler made with m_mutex free; a task
\* dispatched to the main thread from another thread is posted
SchedEffect(S, api, name, onMain) ==
  IF api = "createThread" THEN [S EXCEPT !.m_threads = @ \cup {name}]
  ELSE IF api = "removeThread" /\ name # MainThread
  THEN [S EXCEPT !.m_threads = @ \ {name}]
  ELSE IF api \in {"dispatch", "dispatchAfter"} /\ name = MainThread
          /\ name \in S.m_threads /\ (~onMain \/ api = "dispatchAfter")
  THEN [S EXCEPT !.pending = @ + 1]
  ELSE S

\* TaskScheduler::processMessages is called on the main thread
ProcessMessages ==
  /\ sched.main = "idle"
  /\ sched.m_mutex = ""
  /\ sched' = processMessages(sched)
  /\ UNCHANGED <<sigvars, proxyvars, obsvars, pool, mv>>

\* Thread::ProcessMessages takes the next pending task and runs it
MainTakesTask ==
  /\ sched.main = "processing"
  /\ sched.pending > 0
  /\ sched' = [sched EXCEPT !.main = "task", !.pending = @ - 1, !.ran = @ + 1]
  /\ UNCHANGED <<sigvars, proxyvars, obsvars, pool, mv>>

\* The running task calls the scheduler.  Locking a std::mutex the thread
\* already owns is undefined: the thread blocks for ever or the lock throws.
MainTaskCalls(api, name) ==
  /\ sched.main = "task"
  /\ IF TakesMutex(api, name) /\ sched.m_mutex = "main"
     THEN \E out \in {"deadlock", "throws"} : sched' = [sched EXCEPT !.main = out]
     ELSE /\ TakesMutex(api, name) => sched.m_mutex = ""
          /\ sched' = SchedEffect(sched, api, name, TRUE)
  /\ UNCHANGED <<sigvars, proxyvars, obsvars, pool, mv>>

\* the task returns
MainTaskEnds ==
  /\ sched.main = "task"
  /\ sched' = [sched EXCEPT !.main = "processing"]
  /\ UNCHANGED <<sigvars, proxyvars, obsvars, pool, mv>>

\* Thread::ProcessMessages returns, at the timeout or with no task left, and
\* processMessages returns
ProcessMessagesReturn ==
  /\ sched.main = "processing"
  /\ sched' = [sched EXCEPT !.main = "idle",
                            !.m_mutex = IF @ = "main" THEN "" ELSE @]
  /\ UNCHANGED <<sigvars, proxyvars, obsvars, pool, mv>>

\* the worker thread calls the scheduler: with m_mutex free the call runs,
\* otherwise the thread waits in the lock_guard
WorkerCalls(api, name) ==
  /\ sched.w = "idle"
  /\ sched' = IF ~TakesMutex(api, name) \/ sched.m_mutex = ""
              THEN [SchedEffect(sched, api, name, FALSE) EXCEPT !.waited = FALSE]
              ELSE [sched EXCEPT !.w = "blocked", !.wcall = <<api, name>>]
  /\ UNCHANGED <<sigvars, proxyvars, obsvars, pool, mv>>

\* the lock_guard of the waiting worker gets m_mutex
WorkerResumes ==
  /\ sched.w = "blocked"
  /\ sched.m_mutex = ""
  /\ sched' = [SchedEffect(sched, sched.wcall[1], sched.wcall[2], FALSE)
                 EXCEPT !.w = "idle", !.wcall = <<>>, !.waited = TRUE]
  /\ UNCHANGED <<sigvars, proxyvars, obsvars, pool, mv>>

\* ------------------------------------------------------------ ThreadPool
\* getThread runs housekeep() on every 32nd call
HousekeepAge == 32

\* PooledThread(name): _idle is set by the constructor; q counts the tasks
\* posted to its rtc Thread and not yet taken, run says it executes one
PooledThread == [_idle |-> TRUE, q |-> 0, run |-> FALSE]

\* no ThreadPool has been constructed
NoPool == [made |-> FALSE, _threads |-> <<>>, _minCapacity |-> 0, _maxCapacity |-> 0,
           _age |-> 0, posts |-> 0, last |-> 0, null |-> FALSE]

\* PooledThread::idle
idle(th) == th._idle

Max(a, b) == IF a > b THEN a ELSE b
Min(a, b) == IF a < b THEN a ELSE b

\* ThreadPool::housekeep; ex holds the positions of the threads whose
\* idleTime() has reached _idleTime
housekeep(P, ex) ==
  LET ths == P._threads
      Pos == [i \in 1..Len(ths) |-> i]
      idleThreads == SelectSeq(Pos, LAMBDA i : idle(ths[i]) /\ i \notin ex)
      expiredThreads == SelectSeq(Pos, LAMBDA i : idle(ths[i]) /\ i \in ex)
      activeThreads == SelectSeq(Pos, LAMBDA i : ~idle(ths[i]))
      n == Len(activeThreads)
      limit == Max(Len(idleThreads) + n, P._minCapacity)
      all == idleThreads \o expiredThreads
      kept == SubSeq(all, 1, Min(Len(all), limit - n)) \o activeThreads
  IN IF Len(ths) <= P._minCapacity THEN [P EXCEPT !._age = 0]
     ELSE [P EXCEPT !._age = 0, !._threads = [i \in 1..Len(kept) |-> ths[kept[i]]]]

\* the first thread of the vector that reports idle, 0 if none does
FirstIdle(ths) ==
  IF \E i \in 1..Len(ths) : idle(ths[i])
  THEN CHOOSE i \in 1..Len(ths) : idle(ths[i]) /\ \A j \in 1..(i - 1) : ~idle(ths[j])
  ELSE 0

\* ThreadPool::getThread: the pool afterwards and the position of the
\* thread returned, 0 for nullptr
getThread(P, ex) ==
  LET P1 == IF P._age + 1 = HousekeepAge THEN housekeep(P, ex)
            ELSE [P EXCEPT !._age = @ + 1]
      f == FirstIdle(P1._threads)
  IN IF f # 0 THEN [p |-> P1, th |-> f]
     ELSE IF Len(P1._threads) < P1._maxCapacity
     THEN [p |-> [P1 EXCEPT !._threads = Append(@, PooledThread)],
           th |-> Len(P1._threads) + 1]
     ELSE [p |-> P1, th |-> 0]

\* ThreadPool(minCapacity, maxCapacity)
PoolCreate(mn, mx) ==
  /\ ~pool.made
  /\ mn >= 1 /\ mx >= mn
  /\ pool' = [NoPool EXCEPT !.made = TRUE, !._minCapacity = mn, !._maxCapacity = mx,
                            !._threads = [i \in 1..mn |-> PooledThread]]
  /\ UNCHANGED <<sigvars, proxyvars, obsvars, mv, sched>>

\* ThreadPool::PostTaskImpl: getThread() and PostTaskImpl on the thread it
\* returned; with nullptr the call dereferences a null pointer
PoolPostTask ==
  /\ pool.made /\ ~pool.null
  /\ \E ex \in SUBSET (1..Len(pool._threads)) :
       /\ pool._age + 1 # HousekeepAge => ex = {}
       /\ LET r == getThread(pool, ex) IN
            pool' = IF r.th = 0 THEN [r.p EXCEPT !.null = TRUE, !.posts = @ + 1, !.last = 0]
                    ELSE [r.p EXCEPT !._threads[r.th].q = @ + 1, !.posts = @ + 1,
                                     !.last = r.th]
  /\ UNCHANGED <<sigvars, proxyvars, obsvars, mv, sched>>

\* ThreadPool::collect
PoolCollect(ex) ==
  /\ pool.made /\ ~pool.null
  /\ ex \subseteq 1..Len(pool._threads)
  /\ pool' = [housekeep(pool, ex) EXCEPT !.last = 0]
  /\ UNCHANGED <<sigvars, proxyvars, obsvars, mv, sched>>

\* the rtc Thread of pooled thread i takes the next task of its queue
ThreadTakesTask(i) ==
  /\ i \in 1..Len(pool._threads)
  /\ pool._threads[i].q > 0 /\ ~pool._threads[i].run
  /\ pool' = [pool EXCEPT !._threads[i].q = @ - 1, !._threads[i].run = TRUE, !.last = 0]
  /\ UNCHANGED <<sigvars, proxyvars, obsvars, mv, sched>>

\* the task returns
ThreadFinishesTask(i) ==
  /\ i \in 1..Len(pool._threads)
  /\ pool._threads[i].run
  /\ pool' = [pool EXCEPT !._threads[i].run = FALSE, !.last = 0]
  /\ UNCHANGED <<sigvars, proxyvars, obsvars, mv, sched>>

InitOn(P, W, Q) ==
  /\ policy \in P
  /\ qthread \in Q
  /\ m_mutex = 0
  /\ _observers = <<>>
  /\ owners = Observers
  /\ _notificationCounter = 0
  /\ _weakRefCleanupFrequency = 1
  /\ nextId = 1
  /\ tokens = <<>>
  /\ ntf = NoNotify
  /\ oq = <<>>
  /\ oret = NoCallYet
  /\ conns = [k \in ConnObjs |-> NoConn]
  /\ pool = NoPool
  /\ mv = NoMove
  /\ sched = NoSched
  /\ guards = [g \in BlockerObjs |-> NoGuard]
  /\ watch = W
  /\ slot = <<>>
  /\ payload = [p \in PayloadIds |->
                  IF p = 1 THEN [count |-> 1, value |-> <<>>]
                  ELSE [count |-> 0, value |-> <<>>]]
  /\ m_data = 1
  /\ m_block = FALSE
  /\ emit = [e \in Emitters |-> Idle]
  /\ queue = <<>>
  /\ runs = <<>>
  /\ gone = {}
  /\ staleRead = FALSE
  /\ ret = NoRet
  /\ nemits = 0
  /\ born = <<>>
  /\ destroyed = FALSE
  /\ task = 0
  /\ uaf = FALSE
  /\ calls = [c \in Callers |-> NoCall]
  /\ tq = <<>>
  /\ running = NoTask

\* no emitter is the thread of the slots' queue
InitWith(P, W) == InitOn(P, W, {0})

Both == {"mt", "st"}

Init == InitWith(Both, {"gone", "elig"})

Direct == {direct_connection, direct_connection + singleshot_connection}
Room == Len(slot) < MaxSlots
MayEmit == nemits < MaxEmits

\* One emitting thread; slot bodies that disconnect slots; with signal also
\* a second thread that connects and disconnects during the emission.
Next ==
  \/ \E t \in Direct : Room /\ Connect("f", t, 0)
  \/ \E h \in 1..MaxSlots : ConnDisconnect(h)
  \/ MayEmit /\ EmitBegin(1)
  \/ \E d \in Outcomes : EmitVisit(1, d)
  \/ EmitArm(1)
  \/ \E x \in 0..MaxSlots : EmitBody(1, x)
  \/ EmitEnd(1)

Spec == Init /\ [][Next]_vars

\* the same actions on the thread-safe signal only
SpecMt == InitWith({"mt"}, {"gone", "elig"}) /\ [][Next]_vars

Kinds == {queued_connection, direct_connection}

\* Queued and direct slots of two callables, one emitting thread, the queue
\* thread, and every disconnect form called between or (signal only) during
\* emissions.
NextQueue ==
  \/ \E c \in Callables, t \in Kinds : Len(slot) < QueueSlots /\ Connect(c, t, 0)
  \/ \E h \in 1..QueueSlots : ConnDisconnect(h)
  \/ \E c \in Callables : DisconnectCallable(c)
  \/ DisconnectGroup(0)
  \/ DisconnectAll
  \/ nemits < QueueEmits /\ EmitBegin(1)
  \/ EmitVisit(1, 0)
  \/ EmitArm(1)
  \/ EmitBody(1, 0)
  \/ EmitEnd(1)
  \/ RunClosure

SpecQueue == InitWith(Both, {"gone"}) /\ [][NextQueue]_vars

\* Several threads emit on one thread-safe signal that holds single-shot slots.
NextRace ==
  \/ \E t \in Kinds : Len(slot) < RaceSlots /\ Connect("f", t + singleshot_connection, 0)
  \/ \E e \in Emitters : MayEmit /\ EmitBegin(e)
  \/ \E e \in Emitters : EmitVisit(e, 0)
  \/ \E e \in Emitters : EmitArm(e)
  \/ \E e \in Emitters : EmitBody(e, 0)
  \/ \E e \in Emitters : EmitEnd(e)
  \/ RunClosure

SpecRace == InitWith({"mt"}, {}) /\ [][NextRace]_vars


\* Threads emit on the thread-safe signal while another connects (to group 0
\* and group -1 in turn) and disconnects.
NextCow ==
  \/ Len(slot) < CowSlots /\ Connect("f", direct_connection, 0 - (Len(slot) % 2))
  \/ \E h \in 1..CowSlots : ConnDisconnect(h)
  \/ DisconnectCallable("f")
  \/ \E e \in 1..CowEmitters : nemits < CowEmits /\ EmitBegin(e)
  \/ \E e \in 1..CowEmitters : EmitVisit(e, 0)
  \/ \E e \in 1..CowEmitters : EmitArm(e)
  \/ \E e \in 1..CowEmitters : EmitBody(e, 0)
  \/ \E e \in 1..CowEmitters : EmitEnd(e)

SpecCow == InitWith({"mt"}, {"snap"}) /\ [][NextCow]_vars

\* One thread connects single-shot slots, direct and queued, and emits, one
\* call after the other; the task queue runs the posted closures.
NextShot ==
  \/ \E t \in Kinds : Len(slot) < ShotSlots /\ AllIdle
                        /\ Connect("f", t + singleshot_connection, 0)
  \/ \E h \in 1..ShotSlots : AllIdle /\ ConnDisconnect(h)
  \/ nemits < ShotEmits /\ EmitBegin(1)
  \/ \E d \in Outcomes : EmitVisit(1, d)
  \/ EmitArm(1)
  \/ EmitBody(1, 0)
  \/ EmitEnd(1)
  \/ RunClosure

SpecShot == InitWith(Both, {"gone", "born"}) /\ [][NextShot]_vars

\* the same actions on the thread-safe signal only
SpecShotMt == InitWith({"mt"}, {"gone", "born"}) /\ [][NextShot]_vars

\* One thread connects slots to three groups in any order, disconnects them
\* through their handles, by group and all at once, and emits; slot bodies
\* may disconnect slots.
NextGroups ==
  \/ \E gid \in GroupIds : Len(slot) < GroupSlots /\ AllIdle
                             /\ Connect("f", direct_connection, gid)
  \/ \E h \in 1..GroupSlots : AllIdle /\ ConnDisconnect(h)
  \/ \E gid \in GroupIds : AllIdle /\ DisconnectGroup(gid)
  \/ AllIdle /\ DisconnectAll
  \/ nemits < GroupEmits /\ EmitBegin(1)
  \/ \E d \in Outcomes : EmitVisit(1, d)
  \/ EmitArm(1)
  \/ \E x \in 0..GroupSlots : EmitBody(1, x)
  \/ EmitEnd(1)

SpecGroups == InitWith(Both, {}) /\ [][NextGroups]_vars

Uniques == {direct_connection, direct_connection + unique_connection}

\* One thread connects callables with and without the unique flag, to two
\* groups, disconnects through the handles and emits.
NextUnique ==
  \/ \E c \in Callables, t \in Uniques, gid \in Gids :
       Len(slot) < UniqueSlots /\ AllIdle /\ Connect(c, t, gid)
  \/ \E h \in 1..UniqueSlots : AllIdle /\ ConnDisconnect(h)
  \/ nemits < UniqueEmits /\ EmitBegin(1)
  \/ EmitVisit(1, 0)
  \/ EmitArm(1)
  \/ EmitBody(1, 0)
  \/ EmitEnd(1)

SpecUnique == InitWith(Both, {"ret"}) /\ [][NextUnique]_vars

\* One thread connects callables with and without the unique flag to the
\* default group, disconnects through the handles and emits.
NextTwice ==
  \/ \E c \in Callables, t \in Uniques :
       Len(slot) < TwiceSlots /\ AllIdle /\ Connect(c, t, 0)
  \/ \E h \in 1..TwiceSlots : AllIdle /\ ConnDisconnect(h)
  \/ nemits < TwiceEmits /\ EmitBegin(1)
  \/ EmitVisit(1, 0)
  \/ EmitArm(1)
  \/ EmitBody(1, 0)
  \/ EmitEnd(1)

SpecTwice == InitWith(Both, {"ret"}) /\ [][NextTwice]_vars

\* Handles are used in every way, also empty and expired ones and from slot
\* bodies, while slots are connected, emitted and removed through the signal.
NextConn ==
  \/ Len(slot) < ConnSlots /\ Connect("f", direct_connection, 0)
  \/ \E h \in 0..ConnSlots : ConnDisconnect(h)
  \/ \E h \in 0..ConnSlots : Block(h)
  \/ \E h \in 0..ConnSlots : Unblock(h)
  \/ DisconnectAll
  \/ nemits < ConnEmits /\ EmitBegin(1)
  \/ \E d \in Outcomes : EmitVisit(1, d)
  \/ EmitArm(1)
  \/ \E x \in 0..ConnSlots : EmitBody(1, x)
  \/ EmitEnd(1)

SpecConn == InitWith(Both, {"ret"}) /\ [][NextConn]_vars

\* Every operation that touches a slot: connect (tracked or not), the
\* disconnect forms, block and unblock, emit, the destruction of
\* an owner and of the signal.
NextLife ==
  \/ Len(slot) < LifeSlots /\ Connect("f", direct_connection, 0)
  \/ Len(slot) < LifeSlots /\ ConnectTracked("f", direct_connection, 0)
  \/ \E h \in 1..LifeSlots : ConnDisconnect(h)
  \/ \E h \in 1..LifeSlots : Block(h)
  \/ \E h \in 1..LifeSlots : Unblock(h)
  \/ \E s \in 1..LifeSlots : OwnerDestroyed(s)
  \/ DisconnectCallable("f")
  \/ DisconnectAll
  \/ Destroy
  \/ nemits < LifeEmits /\ EmitBegin(1)
  \/ \E d \in Outcomes : EmitVisit(1, d)
  \/ EmitArm(1)
  \/ EmitBody(1, 0)
  \/ EmitEnd(1)

SpecLife == InitWith(Both, {}) /\ [][NextLife]_vars

\* One thread connects slots, blocks and unblocks them through their handles
\* and emits, one call after the other.
NextBlock ==
  \/ Len(slot) < BlockSlots /\ AllIdle /\ Connect("f", direct_connection, 0)
  \/ \E h \in 1..BlockSlots : AllIdle /\ Block(h)
  \/ \E h \in 1..BlockSlots : AllIdle /\ Unblock(h)
  \/ nemits < BlockEmits /\ EmitBegin(1)
  \/ EmitVisit(1, 0)
  \/ EmitArm(1)
  \/ EmitBody(1, 0)
  \/ EmitEnd(1)

SpecBlock == InitWith(Both, {"ret", "born"}) /\ [][NextBlock]_vars

\* Direct and queued slots, single-shot or not; threads emit, the queue thread
\* runs the closures, and meanwhile slots are disconnected through the signal
\* and through handles and the signal is destroyed.
NextDestroy ==
  \/ \E t \in Kinds, o \in {0, singleshot_connection} :
       Len(slot) < DestroySlots /\ Connect("f", t + o, 0)
  \/ \E h \in 1..DestroySlots : ConnDisconnect(h)
  \/ DisconnectCallable("f")
  \/ DisconnectGroup(0)
  \/ DisconnectAll
  \/ Destroy
  \/ nemits < DestroyEmits /\ EmitBegin(1)
  \/ EmitVisit(1, 0)
  \/ EmitArm(1)
  \/ EmitBody(1, 0)
  \/ EmitEnd(1)
  \/ ClosureBegin
  \/ ClosureEnd

SpecDestroy == InitWith(Both, {"gone"}) /\ [][NextDestroy]_vars

\* One thread connects plain and tracked slots, owners are destroyed between
\* the calls, and the thread emits.
NextTracked ==
  \/ Len(slot) < TrackedSlots /\ AllIdle /\ Connect("f", direct_connection, 0)
  \/ Len(slot) < TrackedSlots /\ AllIdle /\ ConnectTracked("f", direct_connection, 0)
  \/ \E s \in 1..TrackedSlots : AllIdle /\ OwnerDestroyed(s)
  \/ nemits < TrackedEmits /\ EmitBegin(1)
  \/ \E d \in Outcomes : EmitVisit(1, d)
  \/ EmitArm(1)
  \/ EmitBody(1, 0)
  \/ EmitEnd(1)

SpecTracked == InitWith(Both, {"elig"}) /\ [][NextTracked]_vars

\* the same actions on the thread-safe signal only
SpecTrackedMt == InitWith({"mt"}, {"elig"}) /\ [][NextTracked]_vars

\* One thread connects direct slots and emits; a slot body returns or throws.
NextThrow ==
  \/ Len(slot) < ThrowSlots /\ AllIdle /\ Connect("f", direct_connection, 0)
  \/ nemits < ThrowEmits /\ EmitBegin(1)
  \/ EmitVisit(1, 0)
  \/ EmitArm(1)
  \/ EmitBody(1, 0)
  \/ EmitThrow(1)
  \/ EmitEscaped(1)
  \/ EmitEnd(1)

SpecThrow == InitWith(Both, {"elig"}) /\ [][NextThrow]_vars

\* Threads t1, t2 and the queue thread call the proxy method; the queue
\* thread runs the posted closures.
NextProxy ==
  \/ \E c \in Callers, a \in Args : MarshalBegin(c, a)
  \/ \E c \in Callers : MarshalInline(c)
  \/ \E c \in Callers : MarshalWake(c)
  \/ \E c \in Callers : MarshalReturn(c)
  \/ TaskBegin
  \/ TaskInvoke
  \/ TaskStore
  \/ TaskSignal
  \/ TaskRelease

SpecProxy == InitWith({"mt"}, {}) /\ [][NextProxy]_vars

\* Blocking-queued slots: a thread that is not the queue's thread emits, the
\* queue runs the closures, and connections are disconnected in between.
NextBlocking ==
  \/ \E o \in {0, singleshot_connection} :
       Len(slot) < WaitSlots /\ AllIdle
         /\ Connect("f", blocking_queued_connection + o, 0)
  \/ \E h \in 1..WaitSlots : ConnDisconnect(h)
  \/ nemits < WaitEmits /\ EmitBegin(1)
  \/ \E d \in Outcomes : EmitVisit(1, d)
  \/ EmitArm(1)
  \/ EmitEnd(1)
  \/ BlockingBody
  \/ BlockingDone

\* the queue keeps executing the closures posted to it
SpecBlocking ==
  /\ InitWith(Both, {})
  /\ [][NextBlocking]_vars
  /\ WF_vars(BlockingBody)
  /\ WF_vars(BlockingDone)

\* the two threads that emit in SpecAuto; one of them is the queue's thread
AutoThreads == {1, 2}

\* Auto and queued slots bound to one queue; emitter qthread is the thread
\* of that queue, so it emits only between two closures.
NextAuto ==
  \/ \E t \in {auto_connection, queued_connection} :
       Len(slot) < AutoSlots /\ AllIdle /\ Connect("f", t, 0)
  \/ \E h \in 1..AutoSlots : ConnDisconnect(h)
  \/ DisconnectCallable("f")
  \/ \E e \in AutoThreads :
       nemits < AutoEmits /\ (is_current(e) => task = 0) /\ EmitBegin(e)
  \/ \E e \in AutoThreads : EmitVisit(e, 0)
  \/ \E e \in AutoThreads : EmitArm(e)
  \/ \E e \in AutoThreads : EmitBody(e, 0)
  \/ \E e \in AutoThreads : EmitEnd(e)
  \/ ClosureBegin
  \/ ClosureEnd

SpecAuto == InitOn(Both, {"elig"}, AutoThreads) /\ [][NextAuto]_vars

\* the threads that emit in SpecLock
LockThreads == {1, 2}

\* The thread-safe signal with direct slots whose bodies disconnect; other
\* threads, or a body, connect, disconnect and emit meanwhile.
NextLock ==
  \/ \E o \in {0, singleshot_connection} :
       Len(slot) < LockSlots /\ Connect("f", direct_connection + o, 0)
  \/ \E h \in 1..LockSlots : ConnDisconnect(h)
  \/ DisconnectCallable("f")
  \/ \E e \in LockThreads : nemits < LockEmits /\ EmitBegin(e)
  \/ \E e \in LockThreads : EmitVisit(e, 0)
  \/ \E e \in LockThreads : EmitArm(e)
  \/ \E e \in LockThreads, x \in 0..LockSlots : EmitBody(e, x)
  \/ \E e \in LockThreads : EmitEnd(e)

SpecLock == InitWith({"mt"}, {}) /\ [][NextLock]_vars

\* the observers added in SpecNotify
Notified == {"a", "b"}

\* Observers of every kind and priority are added and released, and the
\* Observable notifies them with and without a predicate.
NextNotify ==
  \/ \E o \in Notified, w, q \in BOOLEAN, p \in Priorities :
       ntf.pc = "idle" /\ AddObserver(o, w, q, p, 0)
  \/ \E o \in Notified : ReleaseObserver(o)
  \/ \E pred, keep \in BOOLEAN :
       _notificationCounter < MaxNotifies /\ NotifyBegin(pred, keep, FALSE)
  \/ \E pr \in PredicateOutcomes, cb \in CallbackOutcomes : NotifyStep(pr, cb)
  \/ NotifyReturn
  \/ ObsTask

SpecNotify == InitWith({"mt"}, {}) /\ [][NextNotify]_vars

\* Observers are added one by one and in pairs, re-prioritised and removed.
NextObservers ==
  \/ \E o \in Observers, w \in BOOLEAN, p \in Priorities : AddObserver(o, w, FALSE, p, 0)
  \/ \E o1, o2 \in Observers, p \in Priorities : o1 # o2 /\ AddObservers(<<o1, o2>>, p)
  \/ \E o \in Observers, p \in Priorities : SetObserverPriority(o, p)
  \/ \E o \in Observers : RemoveObserver(o)

SpecObservers == InitWith({"mt"}, {}) /\ [][NextObservers]_vars

\* The cleanup scenario: the frequency is set, weak observers are added and
\* some are released, then the Observable notifies, and the program asks for
\* the number of observers and runs one explicit cleanup.
NextCleanup ==
  \/ \E f \in 0..MaxFrequency :
       /\ _observers = <<>> /\ _notificationCounter = 0 /\ owners = Observers
       /\ SetWeakRefCleanupFrequency(f)
  \/ \E o \in Notified, p \in Priorities :
       _notificationCounter = 0 /\ AddObserver(o, TRUE, FALSE, p, 0)
  \/ \E o \in Notified :
       /\ _notificationCounter = 0
       /\ _hasObserver_nolock(_observers, o)
       /\ ReleaseObserver(o)
  \/ \E keep, skip \in BOOLEAN :
       _notificationCounter < MaxNotifies /\ NotifyBegin(FALSE, keep, skip)
  \/ \E cb \in CallbackOutcomes : NotifyStep("true", cb)
  \/ NotifyReturn
  \/ ntf.pc = "idle" /\ NumOfObservers
  \/ /\ ntf.pc = "idle" /\ _notificationCounter > 0
     /\ oret.op # "performWeakRefCleanup"
     /\ PerformWeakRefCleanup

SpecCleanup == InitWith({"mt"}, {}) /\ [][NextCleanup]_vars

\* The program connects its slots, keeps Connection and ScopedConnection
\* objects for them,
\* copies, assigns and destroys them, and emits; with signal a second thread
\* destroys and move-assigns them while the first one emits.
NextScoped ==
  \/ /\ Len(slot) < ScopedSlots /\ nemits = 0
     /\ \A k \in ConnObjs : ~conns[k].live
     /\ Connect("f", direct_connection, 0)
  \/ \E k \in ConnObjs, h \in 1..ScopedSlots, sc \in BOOLEAN :
       AllIdle /\ MakeConnection(k, h, sc)
  \/ \E k, k2 \in ConnObjs : AllIdle /\ CopyConnection(k, k2)
  \/ \E k \in ConnObjs : DestroyConnection(k)
  \/ \E k, k2 \in ConnObjs : MoveAssignScoped(k, k2)
  \/ nemits < ScopedEmits /\ EmitBegin(1)
  \/ EmitVisit(1, 0)
  \/ EmitArm(1)
  \/ EmitBody(1, 0)
  \/ EmitEnd(1)

SpecScoped == InitWith(Both, {"ret", "gone"}) /\ [][NextScoped]_vars

\* One thread connects a slot, takes guards from its Connection, lets them
\* go in any order, and emits, one call after the other.
NextGuard ==
  \/ Len(slot) < GuardSlots /\ AllIdle /\ Connect("f", direct_connection, 0)
  \/ \E g \in BlockerObjs, h \in 1..GuardSlots : AllIdle /\ Blocker(g, h)
  \/ \E g \in BlockerObjs : AllIdle /\ BlockerRelease(g)
  \/ \E g, g2 \in BlockerObjs : AllIdle /\ g # g2 /\ BlockerMoveAssign(g, g2)
  \/ nemits < GuardEmits /\ EmitBegin(1)
  \/ EmitVisit(1, 0)
  \/ EmitArm(1)
  \/ EmitBody(1, 0)
  \/ EmitEnd(1)

SpecGuard == InitWith(Both, {}) /\ [][NextGuard]_vars

\* Tokens: the program creates tokens, registers observers with or without
\* one of its tokens, and removes by token.
TokenIds == {tokens[i] : i \in 1..Len(tokens)}

NextToken ==
  \/ Len(tokens) < MaxTokens /\ NewToken
  \/ \E o \in Observers, w \in BOOLEAN, p \in {Normal, Low}, id \in {0} \cup TokenIds :
       AddObserver(o, w, FALSE, p, id)
  \/ \E id \in TokenIds : RemoveObserverByToken(id)

SpecToken == InitWith({"mt"}, {}) /\ [][NextToken]_vars

\* One thread connects a free function and a member function of two objects
\* to two groups, then disconnects in each of the four forms, then emits.
Objects == {1, 2}
Connecting == nemits = 0 /\ ret.op \notin {"disconnect", "disconnect_object", "disconnect_pair",
                                            "disconnect_group"}

NextDisc ==
  \/ Len(slot) < DiscSlots /\ Connecting /\ Connect("f", direct_connection, 0)
  \/ \E o \in Objects, gid \in Gids :
       Len(slot) < DiscSlots /\ Connecting /\ ConnectPmf(o, "f", direct_connection, gid)
  \/ \E c \in Callables : nemits = 0 /\ DisconnectCallable(c)
  \/ \E o \in Objects \cup {0} : nemits = 0 /\ DisconnectObject(o)
  \/ \E o \in Objects : nemits = 0 /\ DisconnectPair(o, "f")
  \/ \E gid \in GroupIds : nemits = 0 /\ DisconnectGroup(gid)
  \/ nemits < DiscEmits /\ EmitBegin(1)
  \/ EmitVisit(1, 0)
  \/ EmitArm(1)
  \/ EmitBody(1, 0)
  \/ EmitEnd(1)

SpecDisc == InitWith(Both, {"ret"}) /\ [][NextDisc]_vars

\* Every way a slot enters or leaves the storage: connects of member
\* functions into two groups, plain and single-shot, then one emission in
\* which single-shot slots remove themselves, with Connection::disconnect on
\* any handle and every form of Signal::disconnect before the emission and,
\* where the policy allows it, between the test of a slot and its body.
IndexSlots == 2
IndexConnects ==
  {<<1, direct_connection + singleshot_connection, 0>>,
   <<2, direct_connection, 0>>,
   <<2, direct_connection, -1>>}
Indexing == (nemits = 0 /\ AllIdle) \/ emit[1].pc = "armed"
NextIndex ==
  \/ \E a \in IndexConnects :
       Len(slot) < IndexSlots /\ nemits = 0 /\ ConnectPmf(a[1], "f", a[2], a[3])
  \/ \E h \in 1..IndexSlots : Indexing /\ ConnDisconnect(h)
  \/ Indexing /\ DisconnectCallable("f")
  \/ \E o \in Objects : Indexing /\ DisconnectObject(o)
  \/ Indexing /\ DisconnectPair(2, "f")
  \/ \E gid \in Gids : Indexing /\ DisconnectGroup(gid)
  \/ nemits = 0 /\ EmitBegin(1)
  \/ EmitVisit(1, 0) \/ EmitArm(1) \/ EmitBody(1, 0) \/ EmitEnd(1)
SpecIndex == InitWith(Both, {"ret"}) /\ [][NextIndex]_vars

\* Tracked slots in queued mode: a tracked callable and a tracked member
\* function are connected, the signal is emitted from a thread that is not
\* the queue's, the owners are destroyed at any moment and the queue runs
\* the closures.
OwnerSlots == 2
OwnerEmits == 2
NextOwner ==
  \/ Len(slot) < OwnerSlots /\ AllIdle /\ ConnectTracked("f", queued_connection, 0)
  \/ \E o \in Objects :
       Len(slot) < OwnerSlots /\ AllIdle /\ ConnectPmfTracked(o, "g", queued_connection, 0)
  \/ \E s \in 1..OwnerSlots : OwnerDestroyed(s)
  \/ nemits < OwnerEmits /\ EmitBegin(1)
  \/ EmitVisit(1, 0) \/ EmitArm(1) \/ EmitEnd(1)
  \/ RunClosure
SpecOwner == InitWith(Both, {}) /\ [][NextOwner]_vars

\* Queued slots whose connections are blocked and unblocked before the
\* emissions start and while closures wait in the queue.
SampleSlots == 2
SampleEmits == 2
Sampling == (nemits = 0 /\ AllIdle) \/ queue # <<>>
NextSample ==
  \/ Len(slot) < SampleSlots /\ nemits = 0 /\ AllIdle /\ Connect("f", queued_connection, 0)
  \/ \E h \in 1..SampleSlots : Sampling /\ Block(h)
  \/ \E h \in 1..SampleSlots : Sampling /\ Unblock(h)
  \/ nemits < SampleEmits /\ EmitBegin(1)
  \/ EmitVisit(1, 0) \/ EmitArm(1) \/ EmitEnd(1)
  \/ RunClosure
SpecSample == InitWith(Both, {}) /\ [][NextSample]_vars

\* Callbacks that use the Observable they are called from: while a
\* notification is between two of its callbacks an observer is added or
\* removed, the list is cleared, or the Observable is notified again.
MaxReenter == 2
NextReenter ==
  \/ \E o \in Notified, p \in {Normal, Low} :
       ntf.pc = "idle" /\ lock_unique /\ AddObserver(o, FALSE, FALSE, p, 0)
  \/ \E o \in Observers : InCallback /\ lock_unique /\ AddObserver(o, FALSE, FALSE, Normal, 0)
  \/ \E o \in Observers : InCallback /\ lock_unique /\ RemoveObserver(o)
  \/ InCallback /\ ClearObservers
  \/ _notificationCounter < MaxReenter /\ NestedNotify(TRUE, FALSE)
  \/ _notificationCounter < MaxReenter /\ NotifyBegin(FALSE, TRUE, FALSE)
  \/ \E cb \in {"returns", "throws"} : NotifyStep("true", cb)
  \/ NotifyReturn
SpecReenter == InitWith({"mt"}, {}) /\ [][NextReenter]_vars

\* A signal with slots is moved into a new signal or swapped with another
\* one by move assignment; slots are connected to either, connections are
\* disconnected, and the signals are destroyed.
MoveSlots == 2
NextMove ==
  \/ \E g \in Signals : Len(mv.slots) < MoveSlots /\ MovedConnect(g)
  \/ DefaultConstruct
  \/ MoveConstruct
  \/ \E d, s \in Signals : MoveAssign(d, s)
  \/ \E g \in Signals : MovedDestroy(g)
  \/ \E h \in 1..MoveSlots : MovedDisconnect(h)
SpecMove == InitWith({"mt"}, {}) /\ [][NextMove]_vars

\* The worker posts tasks to the main thread and uses the scheduler; the
\* main thread pumps its tasks with processMessages, and the tasks use the
\* scheduler.
MaxPending == 2
MaxRan == 3
NextSched ==
  \/ \E api \in SchedApi, name \in ThreadNames :
       sched.pending < MaxPending /\ WorkerCalls(api, name)
  \/ WorkerResumes
  \/ sched.ran < MaxRan /\ ProcessMessages
  \/ MainTakesTask
  \/ \E api \in SchedApi, name \in ThreadNames :
       sched.pending < MaxPending /\ MainTaskCalls(api, name)
  \/ MainTaskEnds
  \/ ProcessMessagesReturn
SpecSched == InitWith({"mt"}, {}) /\ [][NextSched]_vars

\* The frequency is set at any time, weak and strong observers are added and
\* released, and notifyObservers is called with and without
\* skipWeakRefCleanup.
NextPurge ==
  \/ \E f \in 0..MaxFrequency : ntf.pc = "idle" /\ SetWeakRefCleanupFrequency(f)
  \/ \E o \in Notified, w \in BOOLEAN :
       ntf.pc = "idle" /\ AddObserver(o, w, FALSE, Normal, 0)
  \/ \E o \in Notified : _hasObserver_nolock(_observers, o) /\ ReleaseObserver(o)
  \/ \E skip \in BOOLEAN :
       _notificationCounter < MaxPurges /\ NotifyBegin(FALSE, TRUE, skip)
  \/ NotifyStep("true", "returns")
  \/ NotifyReturn

SpecPurge == InitWith({"mt"}, {}) /\ [][NextPurge]_vars

\* A program constructs the pool, posts tasks to it and calls collect(),
\* while the pooled threads take and finish their tasks.
NextPool ==
  \/ \E mn \in 1..MaxCapacity, mx \in 1..MaxCapacity : PoolCreate(mn, mx)
  \/ pool.posts < MaxPosts /\ PoolPostTask
  \/ \E ex \in SUBSET (1..MaxCapacity) : PoolCollect(ex)
  \/ \E i \in 1..MaxCapacity : ThreadTakesTask(i)
  \/ \E i \in 1..MaxCapacity : ThreadFinishesTask(i)

SpecPool == InitWith({"mt"}, {}) /\ [][NextPool]_vars

\* ------------------------------------------------------------------ claims
Count(q, x) == Cardinality({i \in 1..Len(q) : q[i] = x})

\* C1: when an emission on a signal of direct slots has finished, it has
\* invoked exactly once every slot that was connected and unblocked when it
\* started and was not disconnected or blocked before its turn came, and it
\* has invoked no other slot, also when slot bodies disconnected slots.
C1_EachSlotOnce ==
  \A e \in Emitters : emit[e].pc = "done" =>
    /\ \A s \in emit[e].stable : Count(emit[e].log, s) = 1
    /\ \A s \in Range(emit[e].log) : s \in emit[e].elig /\ Count(emit[e].log, s) = 1

\* C2: no emission reads a removed, destroyed or out-of-range storage entry,
\* and no emission invokes a slot whose disconnect had returned before the
\* emission started.
C2_DisconnectIsSafe ==
  /\ ~staleRead
  /\ \A e \in Emitters : \A s \in Range(emit[e].log) : s \notin emit[e].pre

\* C3: a closure that a queued emission posted for a slot before a disconnect
\* covering that slot returned, and that starts to execute after it returned,
\* does not invoke the slot's body.
C3_CancelledClosureIsNoOp ==
  [][(queue # <<>> /\ Len(queue') < Len(queue) /\ Head(queue).live
        /\ Head(queue).slot \in gone) => runs' = runs]_vars

\* C5: the body of a single-shot slot is executed at most once in total,
\* however the emit() calls of several threads interleave.
C5_SingleShotAtMostOnce ==
  \A s \in 1..Len(slot) : slot[s].m_singleshot => runs[s] <= 1

Busy(e) == emit[e].pc \in {"iter", "armed", "body", "done"}

\* C4: with the thread-safe signal, the list an emission iterates stays the
\* list of the moment it took its snapshot, whatever connect, disconnect and
\* clean do meanwhile, and the emission invokes no slot that is not in it.
C4_SnapshotIsFrozen ==
  policy = "mt" =>
    \A e \in Emitters : Busy(e) =>
      /\ payload[emit[e].ref].count >= 1
      /\ payload[emit[e].ref].value = emit[e].snap
      /\ Range(emit[e].log) \subseteq Stored(emit[e].snap)

\* a write happened while an emission held a snapshot
C4_Witness ==
  /\ policy = "mt"
  /\ \E e \in Emitters :
       /\ Busy(e)
       /\ emit[e].ref # m_data
       /\ payload[m_data].value # emit[e].snap
       /\ emit[e].log # <<>>
       /\ \E s \in Stored(payload[m_data].value) : s \notin Stored(emit[e].snap)

\* C6: a single-shot slot that nobody disconnected has executed its body
\* exactly once, reports connected() == false and is out of the storage, once
\* an emit() that started after its connect has returned and the queue has
\* drained; and it never executes twice.
C6_SingleShotExactlyOnce ==
  \A s \in 1..Len(slot) : slot[s].m_singleshot =>
    /\ runs[s] <= 1
    /\ (AllIdle /\ nemits > born[s] /\ queue = <<>> /\ s \notin gone) =>
         /\ runs[s] = 1
         /\ ~conn_connected(Sig, s)
         /\ s \notin Stored(m_slots(Sig))

Ascending(list) == \A i, j \in 1..Len(list) : i < j => list[i].gid < list[j].gid

\* C7: the group list is strictly ascending by group id, every slot is stored
\* in the group of its id, and the slots an emission has invoked so far were
\* invoked in ascending order of their groups.
C7_GroupsAscending ==
  /\ \A p \in PayloadIds : payload[p].count > 0 =>
       /\ Ascending(payload[p].value)
       /\ \A g \in 1..Len(payload[p].value) :
            \A s \in Range(payload[p].value[g].slts) :
              slot[s].m_group = payload[p].value[g].gid
  /\ \A e \in Emitters : \A i, j \in 1..Len(emit[e].log) :
       i < j => slot[emit[e].log[i]].m_group <= slot[emit[e].log[j]].m_group

\* an emission has invoked, first, a slot of a group that was created after
\* the group of the slot it invoked next
C7_Witness ==
  \E e \in Emitters :
    /\ emit[e].pc = "done"
    /\ Len(emit[e].log) >= 2
    /\ emit[e].log[1] > emit[e].log[2]
    /\ slot[emit[e].log[1]].m_group < slot[emit[e].log[2]].m_group

\* the slots in storage that hold a callable equal to c
Same(c) == {s \in Stored(m_slots(Sig)) : slot[s].callable = c}

\* the step is a call of connect()
IsConnect == ret' # ret /\ ret'.op = "connect"

C9_UniqueRefusedIfAnyUnique ==
  [][(IsConnect /\ HasBit(ret'.t, unique_connection)
        /\ \E s \in Same(ret'.c) : slot[s].m_unique)
     => ret'.conn = 0 /\ slot' = slot]_vars

\* C10: a connect without the unique flag appends a new slot to the group of
\* its group id and returns a connected Connection.
C10_PlainConnectAccepted ==
  [][(IsConnect /\ ~HasBit(ret'.t, unique_connection))
     => /\ ret'.conn = Len(slot) + 1
        /\ conn_connected(Sig', ret'.conn)
        /\ \E g \in 1..Len(payload'[m_data'].value) :
             /\ payload'[m_data'].value[g].gid = ret'.gid
             /\ payload'[m_data'].value[g].slts # <<>>
             /\ payload'[m_data'].value[g].slts[Len(payload'[m_data'].value[g].slts)]
                  = ret'.conn]_vars

\* the step is a call through a Connection
IsConnCall(ops) == ret' # ret /\ ret'.op \in ops

\* the handle is empty or the slot behind it has been destroyed
Expired(h) == h = 0 \/ ~Alive(Sig, h)

\* C11: Connection::disconnect() returns true when the slot behind the handle
\* exists with m_connected set, and then the slot is disconnected and out of
\* the storage; otherwise it returns false and changes nothing.  No slot goes
\* back to m_connected, so it returns true at most once per slot.  On an empty
\* or expired handle connected(), blocked() and disconnect() are false and
\* block() and unblock() change nothing.
C11_DisconnectOnce ==
  [][/\ IsConnCall({"conn.disconnect"}) =>
          IF ~Expired(ret'.h) /\ slot[ret'.h].m_connected
          THEN /\ ret'.val = 1
               /\ ~slot'[ret'.h].m_connected
               /\ ~conn_connected(Sig', ret'.h)
               /\ ret'.h \notin Stored(m_slots(Sig'))
          ELSE /\ ret'.val = 0
               /\ slot' = slot /\ payload' = payload /\ m_data' = m_data
     /\ (IsConnCall({"block", "unblock"}) /\ Expired(ret'.h)) =>
          (slot' = slot /\ payload' = payload /\ m_data' = m_data)
     /\ \A h \in 0..Len(slot) : Expired(h) =>
          (~conn_connected(Sig, h) /\ ~conn_blocked(Sig, h)
             /\ ~conn_disconnect(Sig, h).ret)
     /\ \A s \in 1..Len(slot) : ~slot[s].m_connected => ~slot'[s].m_connected]_vars

\* a second disconnect() on a handle has returned false, and the slot was
\* removed by the first
C11_Witness ==
  /\ ret.op = "conn.disconnect" /\ ret.h # 0 /\ ret.val = 0
  /\ ~slot[ret.h].m_connected
  /\ ret.h \notin Stored(m_slots(Sig))
  /\ ~destroyed

\* C12: once connected() of a slot's Connection is false it stays false.
C12_ConnectedNeverReturns ==
  [][\A s \in 1..Len(slot) : ~conn_connected(Sig, s) => ~conn_connected(Sig', s)]_vars

\* connected() is false for a slot that is still stored, unblocked and has
\* its m_connected set: a tracked slot whose owner is gone
C12_Witness ==
  \E s \in Stored(m_slots(Sig)) :
    ~conn_connected(Sig, s) /\ slot[s].m_connected /\ slot[s].ptr = "expired"

\* C13: block() and unblock() on a live handle change m_blocked of that slot
\* and nothing else: connected() and the storage stay as they are; an emit()
\* that has finished has invoked, once, exactly the stored slots that are
\* connected and not blocked.
C13_BlockSkipsSlot ==
  [][/\ (IsConnCall({"block", "unblock"}) /\ ~Expired(ret'.h)) =>
          (/\ slot' = [slot EXCEPT ![ret'.h].m_blocked = (ret'.op = "block")]
           /\ payload' = payload /\ m_data' = m_data
           /\ conn_connected(Sig', ret'.h) = conn_connected(Sig, ret'.h)
           /\ conn_blocked(Sig', ret'.h) = (ret'.op = "block"))
     /\ emit'[1].pc = "done" =>
          (\A s \in Stored(m_slots(Sig')) :
             Count(emit'[1].log, s) =
               IF slot'[s].m_connected /\ ~slot'[s].m_blocked THEN 1 ELSE 0)]_vars

\* of two emissions, the first skipped a blocked slot and the second, after
\* unblock(), has invoked it, while another slot was invoked by both
C13_Witness ==
  /\ emit[1].pc = "done" /\ nemits = 2
  /\ ret.op = "unblock"
  /\ ret.h \in Range(emit[1].log)
  /\ born[ret.h] = 0 /\ runs[ret.h] = 1
  /\ \E s \in 1..Len(slot) : runs[s] = 2

\* C14: from the moment ~signal_base, disconnect_all() or a disconnect by
\* group id or callable has returned, the Connection of every slot it covered
\* reports connected() == false.
C14_RemovedSlotsReportDisconnected ==
  \A s \in gone : ~conn_connected(Sig, s)

\* C15: clean() is never called on a signal that has been destroyed.
C15_NoCallIntoDestroyedSignal == ~uaf

\* C16: when an emit() has returned, it has not invoked the tracked slots
\* whose owner was destroyed before it started, their Connections report
\* connected() == false and they are out of the storage, and it has invoked
\* once every other slot that was connected when it started.
C16_ExpiredOwnerSlotIsDropped ==
  emit[1].pc = "done" =>
    \A s \in emit[1].elig :
      IF slot[s].ptr = "expired"
      THEN /\ s \notin Range(emit[1].log)
           /\ ~slot[s].m_connected
           /\ ~conn_connected(Sig, s)
           /\ s \notin Stored(m_slots(Sig))
      ELSE Count(emit[1].log, s) = 1

\* C17: an exception thrown by a slot body never leaves emit(), and an emit()
\* that has returned has invoked every slot of its snapshot, the ones after a
\* throwing slot included.
C17_SlotExceptionIsContained ==
  /\ emit[1].pc # "threw"
  /\ emit[1].pc = "done" => \A s \in emit[1].elig : Count(emit[1].log, s) = 1

Returned(c) == calls[c].pc = "idle" /\ calls[c].id > 0

Foreign == Callers \ {QueueThread}

\* C18: a marshal() made on a thread foreign to the queue runs the method
\* once, on the queue thread, with the argument supplied, and returns the
\* value the method produced (84 for 42).
C18_CrossThreadCallRunsOnceOnQueue ==
  \A c \in Foreign :
    /\ calls[c].n <= 1
    /\ calls[c].n = 1 => calls[c].on = QueueThread
    /\ calls[c].pc = "get" => calls[c].n = 1 /\ calls[c].r_ = 2 * calls[c].a1
    /\ Returned(c) => calls[c].n = 1 /\ calls[c].out = 2 * calls[c].a1

C18_Witness ==
  \E c \in Foreign : Returned(c) /\ calls[c].a1 = 42 /\ calls[c].out = 84
                      /\ calls[c].posts = 1

\* C19: a marshal() made on the queue thread runs the method inline once and
\* returns its value; it posts nothing, neither waits on nor signals the
\* semaphore, and never blocks.
C19_SameThreadCallIsInline ==
  LET k == calls[QueueThread] IN
    /\ k.pc # "wait"
    /\ k.posts = 0 /\ k.waits = 0 /\ k.signals = 0 /\ k.sema_ = 0
    /\ \A i \in 1..Len(tq) : tq[i].c # QueueThread
    /\ k.n <= 1
    /\ k.pc = "get" \/ Returned(QueueThread) => k.n = 1 /\ k.on = QueueThread
    /\ Returned(QueueThread) => k.out = 2 * k.a1

C19_Witness ==
  /\ Returned(QueueThread)
  /\ calls[QueueThread].a1 = 42
  /\ calls[QueueThread].out = 84

\* C20: in a cross-thread marshal() the caller stays blocked in the wait
\* from the post until the semaphore is signalled; the method starts and
\* finishes while the caller's frame exists, and the semaphore is signalled
\* only after the method has finished.
C20_CallerBlockedDuringInvocation ==
  /\ running.pc \in {"invoke", "store", "signal"} =>
       calls[running.c].id = running.id /\ calls[running.c].pc = "wait"
  /\ \A c \in Foreign :
       /\ ~calls[c].dangling
       /\ calls[c].signals > 0 => calls[c].fin
       /\ calls[c].pc = "get" \/ Returned(c) => calls[c].fin /\ calls[c].signals = 1

C20_Witness ==
  \E c \in Foreign : Returned(c) /\ calls[c].fin /\ calls[c].signals = 1
                      /\ calls[c].sema_ = 0

\* C21: an emit() that waits for the closure of a blocking_queued slot goes
\* on only when that closure has finished, and it always goes on, also when
\* the slot was disconnected after the post and the body is skipped.
C21_BlockingEmitWaitsForClosure ==
  /\ [][\A e \in Emitters :
         (emit[e].pc = "wait" /\ emit'[e].pc # "wait") =>
           (/\ queue # <<>>
            /\ Head(queue).from = e
            /\ Head(queue).ran
            /\ queue' = Tail(queue))]_vars
  /\ \A e \in Emitters : (emit[e].pc = "wait") ~> (emit[e].pc # "wait")

C21_Witness ==
  /\ emit[1].pc = "wait"
  /\ queue # <<>>
  /\ Head(queue).from = 1
  /\ Head(queue).ran
  /\ ~slot[Head(queue).slot].m_connected
  /\ runs[Head(queue).slot] = 0

\* call_slot of slot s on the thread of emitter e takes the direct branch
RunsInline(s, e) ==
  \/ slot[s].m_type = direct_connection
  \/ slot[s].m_type = auto_connection /\ e = qthread

\* C22: an emit() runs the body of an auto slot inline exactly when its
\* thread is the thread of the slot's queue; in the other case, and for a
\* queued slot, it runs no body and posts one closure, and a closure runs the
\* body only if the slot still exists and is connected at that moment.
C22_AutoInlineOnQueueThreadOnly ==
  /\ [](\A e \in Emitters :
         /\ \A s \in Range(emit[e].log) : RunsInline(s, e)
         /\ \A s \in Range(emit[e].posted) : ~RunsInline(s, e)
         /\ emit[e].pc = "done" =>
              \A s \in emit[e].stable :
                IF RunsInline(s, e)
                THEN Count(emit[e].log, s) = 1 /\ Count(emit[e].posted, s) = 0
                ELSE Count(emit[e].log, s) = 0 /\ Count(emit[e].posted, s) = 1)
  /\ [][\A s \in 1..Len(runs) :
         runs'[s] > runs[s] =>
           \/ \E e \in Emitters : emit[e].pc = "body" /\ emit[e].cur = s
           \/ task = s /\ Alive(Sig, s) /\ slot[s].m_connected]_vars

C22_Witness ==
  /\ qthread # 0
  /\ emit[qthread].pc = "done"
  /\ queue = <<>>
  /\ task = 0
  /\ \E s \in 1..Len(slot) :
       /\ slot[s].m_type = auto_connection
       /\ s \in Range(emit[qthread].log)
       /\ runs[s] = 2

C24_HighBeforeNormalBeforeLow ==
  ~ntf.keep =>
    \A i, j \in 1..Len(ntf.disp) :
      i < j => /\ ~(ntf.disp[i] = Low /\ ntf.disp[j] \in {High, Normal})
               /\ ~(ntf.disp[i] = Normal /\ ntf.disp[j] = High)

\* C25: the stored list has every High entry before every Normal entry and
\* every Normal entry before every Low entry.
C25_StoredListOrderedByPriority ==
  \A i, j \in 1..Len(_observers) :
    i < j => /\ ~(_observers[i].priority = Low /\ _observers[j].priority \in {High, Normal})
             /\ ~(_observers[i].priority = Normal /\ _observers[j].priority = High)

\* C26: no exception raised by a predicate or a callback leaves a notify
\* call, and a notify call that is over has gone through its whole snapshot.
C26_NotifyContainsExceptions ==
  /\ ntf.pc # "escaped"
  /\ ntf.pc = "done" => ntf.i = Len(ntf.list) + 1

\* one weak observer was added and released, no other observer is
\* registered, and one notify has run with cleanup frequency 1
OneReleasedThenNotified ==
  /\ _weakRefCleanupFrequency = 1
  /\ _notificationCounter = 1
  /\ ntf.pc = "idle"
  /\ Cardinality(Observers \ owners) = 1
  /\ \A i \in 1..Len(_observers) : _observers[i].observer \notin owners

\* C27: in that scenario numOfObservers() returns 0 and the
\* performWeakRefCleanup() that follows the notify reports 1 cleaned entry.
C27_CleanupReportsOne ==
  OneReleasedThenNotified =>
    /\ oret.op = "numOfObservers" => oret.n = 0
    /\ oret.op = "performWeakRefCleanup" => oret.n = 1

\* C28: removeObserverByToken(t) removes exactly the entries whose tokenId is
\* the id of t, keeps the others (also the entries without a token) in their
\* order, and returns true iff an entry was removed; the ids of the tokens
\* of the program are pairwise different and never 0.
C28_TokenRemovalIsExact ==
  [][/\ oret'.op = "removeObserverByToken" =>
          /\ _observers' = SelectSeq(_observers, LAMBDA r : r.tokenId # oret'.n)
          /\ oret'.b = (\E i \in 1..Len(_observers) : _observers[i].tokenId = oret'.n)
          /\ ~oret'.b => _observers' = _observers
     /\ \A i, j \in 1..Len(tokens') :
          tokens'[i] # 0 /\ (i # j => tokens'[i] # tokens'[j])]_vars

\* a removal by token has returned true and has left an entry without a token
\* and an entry of another token in the list
C28_Witness ==
  /\ oret.op = "removeObserverByToken" /\ oret.b
  /\ \E i, j \in 1..Len(_observers) :
       _observers[i].tokenId = 0 /\ _observers[j].tokenId \notin {0, oret.n}

ScopedOps == {"~scoped_connection", "scoped_connection="}

\* C29: when a ScopedConnection is destroyed or move-assigned over, the slot
\* it referred to is disconnected and out of the storage, and no emission
\* that starts afterwards invokes it; every other construction, copy,
\* assignment or destruction of a connection object leaves the slots, their
\* connected and blocked flags and the storage as they are.
C29_ScopedDisconnectsPlainDoesNot ==
  /\ [](\A e \in Emitters : \A s \in Range(emit[e].log) : s \notin emit[e].pre)
  /\ [][/\ (ret' # ret /\ ret'.op \in ScopedOps /\ ret'.h # 0) =>
            (/\ ~conn_connected(Sig', ret'.h)
             /\ ret'.h \notin Stored(m_slots(Sig'))
             /\ ret'.h \in gone')
       /\ (conns' # conns /\ ret' = ret) =>
            (slot' = slot /\ payload' = payload /\ m_data' = m_data)]_vars

\* the ScopedConnection of a slot was destroyed and disconnected it, and an
\* emission that began afterwards has finished without invoking it, while it
\* invoked the other slot, whose connection objects were destroyed as well
C29_Witness ==
  /\ emit[1].pc = "done"
  /\ ret.op = "~scoped_connection" /\ ret.val = 1
  /\ runs[ret.h] = 0
  /\ ret.h \in emit[1].pre
  /\ \E s \in 1..Len(slot) : runs[s] = 1 /\ slot[s].m_connected
  /\ \A k \in ConnObjs : ~conns[k].live

\* C30: while a guard of a slot is alive the Connection reports blocked()
\* and no emission executes the slot's body.
C30_GuardBlocksForItsScope ==
  \A g \in BlockerObjs :
    (guards[g].live /\ Alive(Sig, guards[g].h)) =>
      /\ conn_blocked(Sig, guards[g].h)
      /\ \A e \in Emitters : emit[e].pc = "body" => emit[e].cur # guards[g].h

\* pooled thread i has no task running and none waiting
Free(ths, i) == ~ths[i].run /\ ths[i].q = 0

\* C31: a task posted while every allocated thread is running a task goes to
\* a new thread as long as allocated() < capacity(); no task is given to a
\* thread that is executing a task while a free thread or spare capacity
\* exists; a thread that reports idle has no task running.
C31_BusyThreadGetsNoTask ==
  /\ [](\A i \in 1..Len(pool._threads) : idle(pool._threads[i]) => ~pool._threads[i].run)
  /\ [][(pool'.posts = pool.posts + 1 /\ pool'.last # 0) =>
          LET ths == pool._threads
              t == pool'.last
          IN /\ ((\A i \in 1..Len(ths) : ths[i].run) /\ Len(ths) < pool._maxCapacity)
                  => t = Len(ths) + 1
             /\ (t <= Len(ths) /\ ths[t].run) =>
                  (/\ \A i \in 1..Len(ths) : ~Free(ths, i)
                   /\ Len(ths) >= pool._maxCapacity)]_vars

\* the entry is a weak one whose observer is gone
ExpiredEntry(r) == r.weak /\ r.observer \notin owners

\* C32: the frequency is never 0; a notify call adds one to the count unless
\* it is made with skipWeakRefCleanup; when the call is counted and its count
\* is a multiple of the frequency the expired weak entries, and only they, are
\* removed from the stored list and do not appear in the snapshot; any other
\* notify call leaves the stored list as it is.
C32_PurgeEveryNthCountedCall ==
  /\ [](_weakRefCleanupFrequency >= 1)
  /\ [][(ntf.pc = "idle" /\ ntf'.pc # "idle") =>
          LET k == _notificationCounter'
              due == ~oret'.b /\ k % _weakRefCleanupFrequency = 0
          IN /\ k = _notificationCounter + (IF oret'.b THEN 0 ELSE 1)
             /\ due => /\ _observers' = SelectSeq(_observers, LAMBDA r : ~ExpiredEntry(r))
                        /\ \A i \in 1..Len(ntf'.list) : ~ExpiredEntry(ntf'.list[i])
             /\ ~due => _observers' = _observers]_vars

\* with frequency 2 the second counted call has removed an expired weak entry
\* that the first one had left in the list
C32_Witness ==
  /\ _weakRefCleanupFrequency = 2 /\ _notificationCounter = 2
  /\ ntf.pc = "done"
  /\ \E o \in Notified \ owners : ~_hasObserver_nolock(_observers, o)
  /\ _observers # <<>>

DisconnectOps == {"disconnect", "disconnect_object", "disconnect_pair", "disconnect_group"}

\* the stored slots that the arguments of the disconnect call r select
Selected(r) ==
  {s \in Stored(m_slots(Sig)) :
     CASE r.op = "disconnect" -> slot[s].callable = r.c
       [] r.op = "disconnect_object" -> slot[s].obj = r.h
       [] r.op = "disconnect_pair" -> slot[s].obj = r.h /\ slot[s].callable = r.c
       [] r.op = "disconnect_group" -> slot[s].m_group = r.gid
       [] OTHER -> FALSE}

\* the slots stored in the group gid of a list value
InGroup(list, gid) ==
  UNION {Range(list[i].slts) : i \in {i \in 1..Len(list) : list[i].gid = gid}}

\* C33: a disconnect by callable, object, (object, callable) or group id takes
\* exactly the selected slots out of the storage, returns their number, which
\* is also the drop of slot_count(), and leaves every other slot in its group
\* with its flags; an emit() that has finished has invoked every slot that
\* is stored.
C33_DisconnectRemovesExactlyMatches ==
  [][/\ (ret' # ret /\ ret'.op \in DisconnectOps) =>
          LET M == Selected(ret')
              old == m_slots(Sig)
              new == m_slots(Sig')
          IN /\ ret'.val = Cardinality(M)
             /\ Len(Flatten(new)) = Len(Flatten(old)) - Cardinality(M)
             /\ \A gid \in GroupIds : InGroup(new, gid) = InGroup(old, gid) \ M
             /\ \A s \in 1..Len(slot) \ M : slot'[s] = [slot[s] EXCEPT !.m_index = slot'[s].m_index]
             /\ (ret'.op = "disconnect_group" /\ FindGroup(old, ret'.gid) = 0) =>
                  (ret'.val = 0 /\ new = old)
     /\ emit'[1].pc = "done" =>
          (\A s \in Stored(m_slots(Sig')) : Count(emit'[1].log, s) = 1)]_vars

\* a disconnect by (object, callable) has removed one slot and left the slot
\* of the same member function on the other object, and the emission that
\* followed has invoked that one
C33_Witness ==
  /\ ret.op = "disconnect_pair" /\ ret.val = 1
  /\ emit[1].pc = "done"
  /\ \E s \in Stored(m_slots(Sig)) :
       /\ slot[s].obj \notin {0, ret.h} /\ slot[s].callable = ret.c
       /\ Range(emit[1].log) = {s}

\* ---------------------------------------------------------------------- C34
\* the slot stored at position i of the vector of group gid has index i and
\* group gid
IndexOk(tab, list) ==
  \A g \in 1..Len(list) : \A i \in 1..Len(list[g].slts) :
     /\ tab[list[g].slts[i]].m_index = i - 1
     /\ tab[list[g].slts[i]].m_group = list[g].gid

\* the step from list to list2 removed exactly the slots of R: every group
\* keeps its other slots
RemovedOnly(list, list2, R) ==
  \A gid \in GroupIds : InGroup(list2, gid) = InGroup(list, gid) \ R

\* where the emission loop stands
LoopAt == <<emit[1].pc, emit[1].gi, emit[1].si, emit[1].log>>

\* C34: after any sequence of connects, Connection::disconnect calls,
\* Signal::disconnect calls of every form and single-shot self-disconnects,
\* every stored slot's index is its position in the vector of its group; a
\* clean(state) started by Connection::disconnect or by a single-shot slot
\* removes that slot when it is stored at its index and otherwise removes
\* nothing, so a stale index never removes another slot.
C34_IndexIsPositionAndCleanIsExact ==
  /\ [](~destroyed => IndexOk(slot, m_slots(Sig)))
  /\ [][/\ (LoopAt' = LoopAt /\ ret'.op = "conn.disconnect") =>
            RemovedOnly(m_slots(Sig), m_slots(Sig)', {ret'.h})
        /\ (emit[1].pc = "body" /\ emit'[1].pc # "body") =>
            RemovedOnly(m_slots(Sig), m_slots(Sig)',
                        IF singleshot_done(slot[emit[1].cur]) THEN {emit[1].cur} ELSE {})
       ]_vars

\* a single-shot slot s ran its body and disconnected itself after
\* Signal::disconnect(object) had taken it, and only it, out of the storage
\* during the emission: the slot u that took its place is still stored at
\* the index s kept
C34_Witness ==
  /\ emit[1].pc = "done"
  /\ ret.op = "disconnect_object" /\ ret.val = 1
  /\ \E s \in Range(emit[1].log), u \in Stored(m_slots(Sig)) :
       /\ slot[s].m_singleshot /\ slot[s].obj = ret.h /\ ~slot[s].m_connected
       /\ \A v \in 1..Len(slot) : slot[v].obj = ret.h => v = s
       /\ slot[u].m_group = slot[s].m_group /\ slot[u].m_index = slot[s].m_index

\* ---------------------------------------------------------------------- C35
\* C35: the queue thread holds a MethodCall only while its closure is pending
\* or running: once marshal() has returned to the proxy method no shared_ptr
\* of the closure is left, so the MethodCall is destroyed by the caller's
\* handle and never on the queue thread.
C35_NoClosureRefAfterReturn ==
  /\ ClosureHolds(running.pc) => CallerHolds(running.c, running.id)
  /\ ~running.last

\* ---------------------------------------------------------------------- C36
\* C36: the body of a tracked slot in queued mode never begins after the
\* owner of the slot was destroyed: the posted closure keeps the owner alive
\* or does nothing.
C36_NoBodyAfterOwnerDestroyed ==
  [][\A s \in 1..Len(runs) : runs'[s] > runs[s] => slot[s].ptr # "expired"]_vars

\* ---------------------------------------------------------------------- C37
\* C37: the blocked state of a queued slot is read when the signal is
\* emitted and not again: operator() posts a closure only for a slot it found
\* connected and not blocked, and a closure in the queue runs the body when
\* its slot is still connected, whether or not the slot was blocked after
\* the post.
C37_BlockedIsSampledAtEmit ==
  [][/\ (emit[1].pc # "armed" /\ emit'[1].pc = "armed") =>
          ~slot[emit'[1].cur].m_blocked
     /\ Len(queue') > Len(queue) =>
          /\ emit[1].pc = "armed"
          /\ queue' = Append(queue, Closure(emit[1].cur, 0))
     /\ (queue # <<>> /\ queue' = Tail(queue)) =>
          LET s == Head(queue).slot IN
            runs'[s] = runs[s] +
              (IF Alive(Sig, s) /\ slot[s].m_connected THEN 1 ELSE 0)
    ]_vars

\* the one slot was blocked while its closure waited in the queue, and the
\* closure has run the body
C37_Witness ==
  /\ Len(slot) = 1 /\ nemits = 1 /\ AllIdle
  /\ queue = <<>>
  /\ slot[1].m_blocked /\ slot[1].m_connected
  /\ runs[1] = 1

\* ---------------------------------------------------------------------- C38
ObserversOf(list) == [k \in 1..Len(list) |-> list[k].observer]

C39_DisconnectAfterMoveUsesDestination ==
  /\ [](~mv.uaf)
  /\ [][\A h \in 1..Len(mv.slots) :
          (mv.slots[h].m_connected /\ ~mv'.slots[h].m_connected) =>
            LET d == StoredIn(mv, h) IN
              /\ mv'.ret.via = d
              /\ h \notin Range(mv'.m_slots[d])
              /\ Len(mv'.m_slots[d]) = Len(mv.m_slots[d]) - 1
       ]_vars

\* ---------------------------------------------------------------------- C40
\* C40: processMessages does not hold the mutex of the scheduler while the
\* pending tasks of the main thread run: a task that calls dispatch,
\* dispatchAfter, getThread, createThread, removeThread, isCurrentThread or
\* getThreadNames goes on, and no other thread waits for the mutex because
\* of a running task.
C40_TasksRunWithoutSchedulerMutex ==
  /\ sched.main = "task" => sched.m_mutex # "main"
  /\ sched.main \notin {"deadlock", "throws"}
  /\ sched.w = "blocked" => sched.main # "task"

====
